---- MODULE Spec2Model ----
(***************************************************************************)
(* Verification model of the memory-subsystem reference models:            *)
(*   - MESI snooping engine            (src/Untitled-1.py)                 *)
(*   - MSI directory system, gen. 1    (complete/arbitration_cachecoh)     *)
(*   - weighted round-robin arbiters   (weighted_round_robin.py, both)     *)
(*   - cooperative arbiter + CPU driver (complete/CPU.py)                  *)
(*   - bidirectional serializer        (serial_interface/bidir_serializer) *)
(* Each subsystem has its own specification (SpecMESI, SpecMSI, ...); the  *)
(* variables of the other subsystems stay at their initial values.         *)
(***************************************************************************)
EXTENDS Integers, Sequences, FiniteSets, TLC

VARIABLES
    \* ---- MESI engine ----
    line_size,       \* Bus.line_size / Cache.line_size
    capacity_lines,  \* Cache.capacity_lines
    lines,           \* Cache.lines      : cache -> (line base -> Line)
    lru,             \* Cache.lru        : cache -> list of line bases
    memory,          \* StrictMemoryPool : mem (bytes), reads, writes
    bus_stats,       \* Bus._stats
    cache_stats,     \* Cache._stats     : cache -> counters
    truth,           \* harness: last byte written per address
    mop,             \* harness: the last operation and its result
    msteps,          \* number of operations issued so far
    \* ---- MSI directory system, generation 1 ----
    msi_lines,       \* CacheController.lines : cache -> addr -> CacheLine
    dir_entries,     \* DirectoryController.entries : addr -> DirectoryEntry
    dir_memory,      \* DirectoryController.memory  : addr -> word
    msi_truth,       \* harness: coherent value per address (strobe-merged writes)
    msi_partial,     \* harness: a partial-strobe write has been issued
    msi_op,          \* harness: the last operation, its result, completed or raised
    \* ---- weighted round-robin arbiters (three variants, same inputs) ----
    weights,         \* WeightedRoundRobinArbiter.weights
    arb,             \* variant -> [current_index, remaining_credits]
    wrr_out,         \* variant -> result of the last arbitrate call
    wrr_req,         \* the request vector of the last arbitrate call
    win,             \* harness: variant -> grants of the current all-requesting window
    \* ---- two bidir_serializer instances wired back to back ----
    num_pins,        \* bidir_serializer.num_pins (both sides)
    dut,             \* side -> the fields of that bidir_serializer
    input_req_i,     \* side -> input_packet.req_i (the peer's req_o of the last cycle)
    input_serial_i,  \* input_packet.serial_i (the shared wire of the last cycle)
    bidir_err,       \* "none", or the exception that ended the run
    \* ---- multi-core driver: CPU, cores, cooperative arbiter, memory ----
    sram,                \* MemoryController.sram
    cores_arrived,       \* WeightedRoundRobinArbiter.cores_arrived
    cores_axi_requsts,   \* WeightedRoundRobinArbiter.cores_axi_requsts
    all_arrived,         \* asyncio.Event all_arrived
    arbitation_done,     \* asyncio.Event arbitation_done
    request_id,          \* WeightedRoundRobinArbiter.request_id
    task,                \* core -> the coroutine of this round: position, request, result
    core_workloads,      \* CPU.core_workloads
    core_workloads_copy, \* start_sim's working copy of the stacks
    sim,                 \* start_sim's position: pass, and whether it awaits gather
    serviced,            \* harness: pass -> core -> stack slot -> times memory served it
    forwarded,           \* harness: cores whose request reached memory in this round
    \* ---- MSI directory system, generation 2 (run beside generation 1) ----
    v2_lines,        \* cache_v2.CacheController.lines : cache -> addr -> CacheLine
    v2_entries,      \* directory_v2.DirectoryController.entries
    v2_sram,         \* the injected MemoryController's sram
    snoop_port,      \* which cache method register_cache was given
    v2_op,           \* harness: the last operation on generation 2, result or exception
    \* ---- tserializer feeding rserializer ----
    uni_pins,        \* num_pins of both serializers
    tdut,            \* the fields of the tserializer
    rdut,            \* the fields of the rserializer
    rinput,          \* rinput_packet: en_i, serial_i (the sender's outputs of the last clock)
    uni_sent,        \* harness: message latched by the sender, message it completed, count
    uni_read,        \* harness: data_o was consumed since valid_o rose
    \* ---- byte-strobe merge: the three copies of apply_wstrb ----
    ws_old,          \* old_value, a 32-bit word held as its four byte lanes
    ws_new,          \* new_value
    ws_strb,         \* wstrb, 4 bits
    ws_res,          \* the results of the calls
    \* ---- plain memory controller called directly ----
    mc_sram,         \* MemoryController.sram
    mc_op,           \* the last write and the last read made
    \* ---- memory pools called directly ----
    pool,            \* a MemoryPool
    strict_pool,     \* a StrictMemoryPool given the same calls
    pool_op,         \* the last call: its arguments, outcome and the pools before it
    \* ---- MSI transition tables called directly ----
    fsm_state,    \* the state of the line
    fsm_last,    \* the last call: state before, event, result
    fsm_n,   \* calls made
    \* ---- construction of the driver ----
    cpu_size,    \* CPU(size, ...)
    cpu_test_cases,    \* the flat test list
    cpu_status,    \* none, ok, or the exception raised
    cpu_core_workloads,    \* self.core_workloads
    cpu_copy,    \* core_workloads_copy
    cpu_popped,   \* items taken by each core, in order
    \* ---- the packed coherence command word ----
    pk_line,    \* core -> data of its cache line
    pk_last,   \* the last command word: what was packed, the word, what was unpacked
    \* ---- both serializer sides sending continuously ----
    bf_last,   \* the side that started the last transfer (2: none yet)
    \* ---- the three-phase serializer ----
    ser_pins,    \* num_pins of the serializer
    ser    \* the serializer object

varsMESI == <<line_size, capacity_lines, lines, lru, memory, bus_stats,
              cache_stats, truth, mop, msteps>>

varsMSI == <<msi_lines, dir_entries, dir_memory, msi_truth, msi_partial, msi_op>>

varsWRR == <<weights, arb, wrr_out, wrr_req, win>>

varsBidir == <<num_pins, dut, input_req_i, input_serial_i, bidir_err>>

varsCPU == <<sram, cores_arrived, cores_axi_requsts, all_arrived, arbitation_done,
             request_id, task, core_workloads, core_workloads_copy, sim,
             serviced, forwarded>>

varsMSI2 == <<v2_lines, v2_entries, v2_sram, snoop_port, v2_op>>

varsUni == <<uni_pins, tdut, rdut, rinput, uni_sent, uni_read>>

varsStrobe == <<ws_old, ws_new, ws_strb, ws_res>>

varsMem == <<mc_sram, mc_op>>

varsPool == <<pool, strict_pool, pool_op>>

varsTable == <<fsm_state, fsm_last, fsm_n>>

varsCtor == <<cpu_size, cpu_test_cases, cpu_status, cpu_core_workloads, cpu_copy, cpu_popped>>

varsPack == <<pk_line, pk_last>>

varsTurns == <<bf_last>>

varsSer == <<ser_pins, ser>>

\* the subsystems added after the first five
varsLater == <<varsMSI2, varsUni, varsStrobe, varsMem, varsPool, varsTable, varsCtor, varsPack, varsTurns, varsSer>>

vars == <<varsMESI, varsMSI, varsWRR, varsBidir, varsCPU, varsLater>>

\* what each subsystem leaves alone
outsideMESI == <<varsMSI, varsWRR, varsBidir, varsCPU, varsLater>>
outsideMSI == <<varsMESI, varsWRR, varsBidir, varsCPU, varsLater>>
outsideWRR == <<varsMESI, varsMSI, varsBidir, varsCPU, varsLater>>
outsideBidir == <<varsMESI, varsMSI, varsWRR, varsCPU, varsLater>>
\* the driver owns its arbiter's weights and credit state
outsideCPU == <<varsMESI, varsMSI, varsBidir, wrr_out, wrr_req, win, varsLater>>

\* the variables of a subsystem that is not running
IdleMESI ==
    /\ line_size = 1
    /\ capacity_lines = 1
    /\ lines = <<>>
    /\ lru = <<>>
    /\ memory = <<>>
    /\ bus_stats = <<>>
    /\ cache_stats = <<>>
    /\ truth = <<>>
    /\ mop = <<>>
    /\ msteps = 0

IdleMSI ==
    /\ msi_lines = <<>>
    /\ dir_entries = <<>>
    /\ dir_memory = <<>>
    /\ msi_truth = <<>>
    /\ msi_partial = FALSE
    /\ msi_op = <<>>

IdleWRR ==
    /\ weights = <<>>
    /\ arb = <<>>
    /\ wrr_out = <<>>
    /\ wrr_req = <<>>
    /\ win = <<>>

IdleBidir ==
    /\ num_pins = 1
    /\ dut = <<>>
    /\ input_req_i = <<>>
    /\ input_serial_i = <<>>
    /\ bidir_err = "none"

IdleCPU ==
    /\ sram = <<>>
    /\ cores_arrived = 0
    /\ cores_axi_requsts = <<>>
    /\ all_arrived = FALSE
    /\ arbitation_done = FALSE
    /\ request_id = -1
    /\ task = <<>>
    /\ core_workloads = <<>>
    /\ core_workloads_copy = <<>>
    /\ sim = <<>>
    /\ serviced = <<>>
    /\ forwarded = {}

IdleMSI2 ==
    /\ v2_lines = <<>>
    /\ v2_entries = <<>>
    /\ v2_sram = <<>>
    /\ snoop_port = "none"
    /\ v2_op = <<>>

IdleUni ==
    /\ uni_pins = 1
    /\ tdut = <<>>
    /\ rdut = <<>>
    /\ rinput = <<>>
    /\ uni_sent = <<>>
    /\ uni_read = FALSE

IdleStrobe ==
    /\ ws_old = <<>>
    /\ ws_new = <<>>
    /\ ws_strb = 0
    /\ ws_res = <<>>

IdleMem ==
    /\ mc_sram = <<>>
    /\ mc_op = <<>>

IdlePool ==
    /\ pool = <<>>
    /\ strict_pool = <<>>
    /\ pool_op = <<>>

IdleTable ==
    /\ fsm_state = 0
    /\ fsm_last = <<>>
    /\ fsm_n = 0

IdleCtor ==
    /\ cpu_size = 0
    /\ cpu_test_cases = <<>>
    /\ cpu_status = "none"
    /\ cpu_core_workloads = <<>>
    /\ cpu_copy = <<>>
    /\ cpu_popped = <<>>

IdlePack ==
    /\ pk_line = <<>>
    /\ pk_last = <<>>

IdleTurns ==
    /\ bf_last = 2

IdleSer ==
    /\ ser_pins = 0
    /\ ser = <<>>

\* the later subsystems at rest, except the one named
IdleLater(running) ==
    /\ IF running = "MSI2" THEN TRUE ELSE IdleMSI2
    /\ IF running = "Uni" THEN TRUE ELSE IdleUni
    /\ IF running = "Strobe" THEN TRUE ELSE IdleStrobe
    /\ IF running = "Mem" THEN TRUE ELSE IdleMem
    /\ IF running = "Pool" THEN TRUE ELSE IdlePool
    /\ IF running = "Table" THEN TRUE ELSE IdleTable
    /\ IF running = "Ctor" THEN TRUE ELSE IdleCtor
    /\ IF running = "Pack" THEN TRUE ELSE IdlePack
    /\ IF running = "Turns" THEN TRUE ELSE IdleTurns
    /\ IF running = "Ser" THEN TRUE ELSE IdleSer

\* the first five subsystems at rest
IdleFirst == IdleMESI /\ IdleMSI /\ IdleWRR /\ IdleBidir /\ IdleCPU

\* ------------------------------------------------------------------------
\* Generic helpers
\* ------------------------------------------------------------------------
Pow2(n) == 2 ^ n

\* list.remove(x): drops the first occurrence of x
RECURSIVE RemoveFirst(_, _)
RemoveFirst(s, x) ==
    IF s = <<>> THEN <<>>
    ELSE IF Head(s) = x THEN Tail(s)
    ELSE <<Head(s)>> \o RemoveFirst(Tail(s), x)

InSeq(s, x) == \E i \in 1..Len(s) : s[i] = x

\* dict helpers: a dict is a function whose DOMAIN is its key set
DictPut(d, k, v) == [x \in (DOMAIN d) \cup {k} |-> IF x = k THEN v ELSE d[x]]
DictDel(d, k) == [x \in (DOMAIN d) \ {k} |-> d[x]]

\* ========================================================================
\* MESI snooping engine
\* ========================================================================
MaxOps == 4                 \* operations issued per behaviour
MemSize == 2                \* StrictMemoryPool.SIZE used by the model
BASE_ADDR == 4096           \* 0x1000
Caches == {0, 1}
LineSizes == {1, 2}
Capacities == {1, 2}
WriteValues == {7, 264}     \* 264 = 0x108 exercises the & 0xFF of write_byte

Addrs == BASE_ADDR .. (BASE_ADDR + MemSize - 1)

\* init_memory_pattern: byte i holds (i * 37 + 11) & 0xFF
InitPattern(i) == (i * 37 + 11) % 256

\* StrictMemoryPool.write: byte per byte, then writes += 1
MemWrite(m, addr, data) ==
    [m EXCEPT !.mem = [a \in DOMAIN m.mem |->
                          IF a >= addr /\ a < addr + Len(data)
                          THEN data[a - addr + 1] ELSE m.mem[a]],
              !.writes = @ + 1]

\* StrictMemoryPool.read: the bytes read (reads += 1 is applied by MemCountRead)
MemRead(m, addr, size) == [i \in 1..size |-> m.mem[addr + i - 1]]

MemCountRead(m) == [m EXCEPT !.reads = @ + 1]

\* Cache._align_base
align_base(addr) == BASE_ADDR + ((addr - BASE_ADDR) \div line_size) * line_size

\* Bus._others as a list, in attach order
others(requester) == IF requester = 0 THEN <<1>> ELSE <<0>>

Valid(s, c, base) == base \in DOMAIN s.lines[c] /\ s.lines[c][base].state # "I"

\* mutation of BusRdSnoop: a Modified line is downgraded without writeback
BusRdSnoop_NoWriteback(s, c, base) ==
    IF ~Valid(s, c, base) THEN s
    ELSE IF s.lines[c][base].state \in {"M", "E"}
         THEN [s EXCEPT !.lines[c][base].state = "S"]
    ELSE s

\* one iteration of the snoop loop of Bus.busrd
BusRdSnoop(s, c, base) ==
    IF ~Valid(s, c, base) THEN s
    ELSE IF s.lines[c][base].state = "M"
         THEN [s EXCEPT !.memory = MemWrite(@, base, s.lines[c][base].data),
                        !.bus.writebacks = @ + 1,
                        !.lines[c][base].state = "S"]
    ELSE IF s.lines[c][base].state = "E"
         THEN [s EXCEPT !.lines[c][base].state = "S"]
    ELSE s

RECURSIVE BusRdLoop(_, _, _)
BusRdLoop(s, cs, base) ==
    IF cs = <<>> THEN s
    ELSE BusRdLoop(BusRdSnoop(s, Head(cs), base), Tail(cs), base)

\* mutation of busrd: the shared flag is never raised
busrd_NeverShared(s, requester, base) ==
    LET s0 == [s EXCEPT !.bus.busrd = @ + 1]
        s1 == BusRdLoop(s0, others(requester), base)
    IN  [s |-> [s1 EXCEPT !.memory = MemCountRead(@)],
         data |-> MemRead(s1.memory, base, line_size),
         shared |-> FALSE]

\* Bus.busrd: returns the new system, the line data and the shared flag
busrd(s, requester, base) ==
    LET s0 == [s EXCEPT !.bus.busrd = @ + 1]
        shared == \E i \in 1..Len(others(requester)) :
                      Valid(s, others(requester)[i], base)
        s1 == BusRdLoop(s0, others(requester), base)
    IN  [s |-> [s1 EXCEPT !.memory = MemCountRead(@)],
         data |-> MemRead(s1.memory, base, line_size),
         shared |-> shared]

\* mutation of BusRdXSnoop: every valid line is written back, clean ones too
BusRdXSnoop_WritebackAll(s, c, base) ==
    IF ~Valid(s, c, base) THEN s
    ELSE [s EXCEPT !.memory = MemWrite(@, base, s.lines[c][base].data),
                   !.bus.writebacks = @ + 1,
                   !.lines[c][base].state = "I",
                   !.bus.invalidations = @ + 1]

\* one iteration of the snoop loop of Bus.busrdx
BusRdXSnoop(s, c, base) ==
    IF ~Valid(s, c, base) THEN s
    ELSE LET s1 == IF s.lines[c][base].state = "M"
                   THEN [s EXCEPT !.memory = MemWrite(@, base, s.lines[c][base].data),
                                  !.bus.writebacks = @ + 1]
                   ELSE s
         IN  [s1 EXCEPT !.lines[c][base].state = "I",
                        !.bus.invalidations = @ + 1]

RECURSIVE BusRdXLoop(_, _, _)
BusRdXLoop(s, cs, base) ==
    IF cs = <<>> THEN s
    ELSE BusRdXLoop(BusRdXSnoop(s, Head(cs), base), Tail(cs), base)

\* Bus.busrdx
busrdx(s, requester, base) ==
    LET s0 == [s EXCEPT !.bus.busrdx = @ + 1]
        s1 == BusRdXLoop(s0, others(requester), base)
    IN  [s |-> [s1 EXCEPT !.memory = MemCountRead(@)],
         data |-> MemRead(s1.memory, base, line_size)]

\* mutation of BusUpgrSnoop: the other copies are not invalidated
BusUpgrSnoop_NoInvalidate(s, c, base) == s

\* one iteration of the loop of Bus.busupgr
BusUpgrSnoop(s, c, base) ==
    IF Valid(s, c, base)
    THEN [s EXCEPT !.lines[c][base].state = "I", !.bus.invalidations = @ + 1]
    ELSE s

RECURSIVE BusUpgrLoop(_, _, _)
BusUpgrLoop(s, cs, base) ==
    IF cs = <<>> THEN s
    ELSE BusUpgrLoop(BusUpgrSnoop(s, Head(cs), base), Tail(cs), base)

\* Bus.busupgr
busupgr(s, requester, base) ==
    BusUpgrLoop([s EXCEPT !.bus.busupgr = @ + 1], others(requester), base)

\* mutation of touch: the base is appended without removing its old entry
touch_NoRemove(s, c, base) ==
    [s EXCEPT !.lru[c] = Append(@, base)]

\* Cache._touch
touch(s, c, base) ==
    [s EXCEPT !.lru[c] = Append(IF InSeq(@, base) THEN RemoveFirst(@, base) ELSE @, base)]

\* mutation of evict_if_needed: a Modified victim is dropped without writeback
evict_if_needed_NoWriteback(s, c) ==
    IF Cardinality(DOMAIN s.lines[c]) < capacity_lines THEN s
    ELSE [s EXCEPT !.lru[c] = Tail(@),
                   !.lines[c] = DictDel(@, Head(s.lru[c])),
                   !.stats[c].evictions = @ + 1]

\* Cache._evict_if_needed
evict_if_needed(s, c) ==
    IF Cardinality(DOMAIN s.lines[c]) < capacity_lines THEN s
    ELSE LET evict_base == Head(s.lru[c])
             victim == s.lines[c][evict_base]
             s1 == [s EXCEPT !.lru[c] = Tail(@),
                             !.lines[c] = DictDel(@, evict_base),
                             !.stats[c].evictions = @ + 1]
         IN  IF victim.state = "M"
             THEN [s1 EXCEPT !.memory = MemWrite(@, evict_base, victim.data),
                             !.stats[c].eviction_writebacks = @ + 1]
             ELSE s1

\* Cache._install_line
install_line(s, c, base, data, state) ==
    LET s1 == evict_if_needed(s, c)
        s2 == [s1 EXCEPT !.lines[c] =
                  DictPut(@, base, [base |-> base, data |-> data, state |-> state])]
    IN  touch(s2, c, base)

\* mutation of get_line_for_read: a valid line is fetched again over the bus
get_line_for_read_AlwaysMiss(s, c, addr) ==
    LET base == align_base(addr)
        r == busrd([s EXCEPT !.stats[c].read_misses = @ + 1], c, base)
    IN  install_line(r.s, c, base, r.data, IF r.shared THEN "S" ELSE "E")

\* Cache._get_line_for_read
get_line_for_read(s, c, addr) ==
    LET base == align_base(addr)
    IN  IF Valid(s, c, base)
        THEN touch([s EXCEPT !.stats[c].read_hits = @ + 1], c, base)
        ELSE LET r == busrd([s EXCEPT !.stats[c].read_misses = @ + 1], c, base)
             IN  install_line(r.s, c, base, r.data, IF r.shared THEN "S" ELSE "E")

\* Cache._get_line_for_write
get_line_for_write(s, c, addr) ==
    LET base == align_base(addr)
    IN  IF Valid(s, c, base)
        THEN LET s1 == touch([s EXCEPT !.stats[c].write_hits = @ + 1], c, base)
             IN  IF s1.lines[c][base].state = "S"
                 THEN [busupgr(s1, c, base) EXCEPT !.lines[c][base].state = "M"]
                 ELSE IF s1.lines[c][base].state = "E"
                 THEN [s1 EXCEPT !.lines[c][base].state = "M"]
                 ELSE s1
        ELSE LET r == busrdx([s EXCEPT !.stats[c].write_misses = @ + 1], c, base)
             IN  install_line(r.s, c, base, r.data, "M")

\* the system as one record, for threading through the calls above
Sys == [lines |-> lines, lru |-> lru, memory |-> memory,
        bus |-> bus_stats, stats |-> cache_stats]

SetSys(s) ==
    /\ lines' = s.lines
    /\ lru' = s.lru
    /\ memory' = s.memory
    /\ bus_stats' = s.bus
    /\ cache_stats' = s.stats

\* Cache.read_byte
read_byte(c, addr) ==
    /\ msteps < MaxOps
    /\ LET s1 == get_line_for_read(Sys, c, addr)
           line == s1.lines[c][align_base(addr)]
           off == addr - line.base
       IN  /\ SetSys(s1)
           /\ mop' = [op |-> "read", cache |-> c, addr |-> addr,
                      value |-> line.data[off + 1]]
    /\ msteps' = msteps + 1
    /\ UNCHANGED <<line_size, capacity_lines, truth>>
    /\ UNCHANGED outsideMESI

\* Cache.write_byte
write_byte(c, addr, value) ==
    /\ msteps < MaxOps
    /\ LET s1 == get_line_for_write(Sys, c, addr)
           base == align_base(addr)
           off == addr - s1.lines[c][base].base
       IN  SetSys([s1 EXCEPT !.lines[c][base].data[off + 1] = value % 256,
                             !.lines[c][base].state = "M"])
    /\ truth' = [truth EXCEPT ![addr] = value % 256]
    /\ mop' = [op |-> "write", cache |-> c, addr |-> addr, value |-> value % 256]
    /\ msteps' = msteps + 1
    /\ UNCHANGED <<line_size, capacity_lines>>
    /\ UNCHANGED outsideMESI

ZeroCacheStats == [evictions |-> 0, eviction_writebacks |-> 0, read_hits |-> 0,
                   read_misses |-> 0, write_hits |-> 0, write_misses |-> 0]

\* make_system: fresh pool with the init pattern, a bus and two empty caches
make_system ==
    /\ line_size \in {ls \in LineSizes : MemSize % ls = 0}
    /\ capacity_lines \in Capacities
    /\ lines = [c \in Caches |-> <<>>]
    /\ lru = [c \in Caches |-> <<>>]
    /\ memory = [mem |-> [a \in Addrs |-> InitPattern(a - BASE_ADDR)],
                 reads |-> 0, writes |-> 1]
    /\ bus_stats = [busrd |-> 0, busrdx |-> 0, busupgr |-> 0,
                    invalidations |-> 0, writebacks |-> 0]
    /\ cache_stats = [c \in Caches |-> ZeroCacheStats]
    /\ truth = [a \in Addrs |-> InitPattern(a - BASE_ADDR)]
    /\ mop = [op |-> "none", cache |-> 0, addr |-> BASE_ADDR, value |-> 0]
    /\ msteps = 0

InitMESI == make_system /\ IdleMSI /\ IdleWRR /\ IdleBidir /\ IdleCPU /\ IdleLater("none")

MesiRead == \E c \in Caches, a \in Addrs : read_byte(c, a)
MesiWrite == \E c \in Caches, a \in Addrs, v \in WriteValues : write_byte(c, a, v)

NextMESI == MesiRead \/ MesiWrite

SpecMESI == InitMESI /\ [][NextMESI]_vars

\* ---- MESI claims ------------------------------------------------------
\* peek_state: the state of the line, Invalid when the line is absent
peek(c, base) == IF base \in DOMAIN lines[c] THEN lines[c][base].state ELSE "I"

LineBases == {align_base(a) : a \in Addrs}

LineBytes(m, base) == [i \in 1..line_size |-> m.mem[base + i - 1]]

\* C1: whenever one cache holds a line Modified or Exclusive, the other
\* cache holds that line Invalid or not at all.
C1_MesiMutualExclusion ==
    \A base \in LineBases : \A c \in Caches : \A d \in Caches \ {c} :
        peek(c, base) \in {"M", "E"} => peek(d, base) = "I"

\* C1 witness: after an eviction, one cache is Modified on a line that the
\* other cache still stores, invalidated.
C1_Witness ==
    \E base \in LineBases : \E c \in Caches : \E d \in Caches \ {c} :
        /\ peek(c, base) = "M"
        /\ base \in DOMAIN lines[d]
        /\ lines[d][base].state = "I"
        /\ \E e \in Caches : cache_stats[e].evictions > 0

\* C2: every read_byte returns the byte most recently written to that
\* address by any cache, or the initial memory byte.
C2_MesiReadCoherent ==
    mop.op = "read" => mop.value = truth[mop.addr]

\* C2 witness: a cache reads a byte that the other cache wrote, after an
\* eviction took place.
C2_Witness ==
    /\ mop.op = "read"
    /\ mop.value = truth[mop.addr]
    /\ truth[mop.addr] # InitPattern(mop.addr - BASE_ADDR)
    /\ cache_stats[mop.cache].read_misses > 0
    /\ cache_stats[1 - mop.cache].write_misses > 0
    /\ \E e \in Caches : cache_stats[e].evictions > 0

\* Modified lines of cache c that the step evicts (c is the acting cache)
EvictedM(c) == {b \in DOMAIN lines[c] :
                   lines[c][b].state = "M" /\ b \notin DOMAIN lines'[c]}

\* Modified lines of cache c that the step's bus transaction snoops
SnoopedM(c) == {b \in DOMAIN lines[c] :
                   /\ lines[c][b].state = "M"
                   /\ b \in DOMAIN lines'[c]
                   /\ lines'[c][b].state # "M"}

SumOver(f) == f[0] + f[1]

\* C10: when a Modified line is evicted or snooped by BusRd/BusRdX, memory
\* holds the line's bytes right after the operation; while the line stays
\* Modified memory keeps the older bytes; each writeback is counted once
\* (bus writebacks for snoops, eviction_writebacks for evictions).
C10_MesiWriteback ==
    [][ /\ \A c \in Caches : \A b \in DOMAIN lines[c] :
              lines[c][b].state = "M" =>
                  IF b \in EvictedM(c) \cup SnoopedM(c)
                  THEN LineBytes(memory', b) = lines[c][b].data
                  ELSE LineBytes(memory', b) = LineBytes(memory, b)
        /\ bus_stats'.writebacks = bus_stats.writebacks
               + SumOver([c \in Caches |-> Cardinality(SnoopedM(c))])
        /\ \A c \in Caches :
              cache_stats'[c].eviction_writebacks =
                  cache_stats[c].eviction_writebacks + Cardinality(EvictedM(c))
      ]_vars

\* C10 witness: a snoop writeback and an eviction writeback both happened
\* and memory holds a written byte.
C10_Witness ==
    /\ bus_stats.writebacks > 0
    /\ \E c \in Caches : cache_stats[c].eviction_writebacks > 0
    /\ \E a \in Addrs : memory.mem[a] # InitPattern(a - BASE_ADDR)

\* the Modified line whose writeback covers byte a in this step, if any
WrittenBack(a) ==
    {<<c, b>> \in Caches \X LineBases :
        /\ b \in DOMAIN lines[c]
        /\ b \in EvictedM(c) \cup SnoopedM(c)
        /\ a >= b /\ a < b + line_size}

\* C35: backing memory is written only by writebacks. In every read_byte or
\* write_byte step the pool is written once per Modified line that answers a
\* BusRd/BusRdX snoop or is evicted, and never otherwise; a byte that changes
\* takes the value the written-back Modified line held; read hits and write
\* hits (BusUpgr included) leave the pool untouched, and a step whose snoops
\* and evictions meet no Modified line leaves every byte as it was.
C35_MesiMemoryFrame ==
    [][ /\ memory'.writes = memory.writes
               + SumOver([c \in Caches |-> Cardinality(EvictedM(c) \cup SnoopedM(c))])
        /\ \A a \in Addrs :
              memory'.mem[a] # memory.mem[a] =>
                  \E w \in WrittenBack(a) :
                      memory'.mem[a] = lines[w[1]][w[2]].data[a - w[2] + 1]
        /\ \A c \in Caches :
              (\/ cache_stats'[c].read_hits # cache_stats[c].read_hits
               \/ cache_stats'[c].write_hits # cache_stats[c].write_hits)
                  => memory' = memory
        /\ (\A c \in Caches : EvictedM(c) \cup SnoopedM(c) = {})
              => memory'.mem = memory.mem
      ]_vars

\* C35 witness: a BusUpgr write hit, a snoop of a clean line, a snoop
\* writeback and an eviction writeback all happened; the pool was written
\* exactly once per writeback after its initial fill.
C35_Witness ==
    /\ bus_stats.busupgr > 0
    /\ bus_stats.writebacks > 0
    /\ bus_stats.invalidations > 0
    /\ \E c \in Caches : cache_stats[c].eviction_writebacks > 0
    /\ memory.writes = 1 + bus_stats.writebacks
                         + SumOver([c \in Caches |-> cache_stats[c].eviction_writebacks])

\* peek_state after the step
peek_next(c, base) == IF base \in DOMAIN lines'[c] THEN lines'[c][base].state ELSE "I"

\* C21: after write_byte(addr, v) the writing cache holds the line Modified,
\* whatever the line's state was in either cache and whether or not v equals
\* the stored byte, and a read_byte(addr) by the same cache right after it
\* returns v without any bus transaction.
C21_MesiReadAfterWrite ==
    [][ /\ mop'.op = "write" => peek_next(mop'.cache, align_base(mop'.addr)) = "M"
        /\ \A c \in Caches, a \in Addrs :
              (mop.op = "write" /\ mop.cache = c /\ mop.addr = a /\ read_byte(c, a)) =>
                  /\ mop'.value = mop.value
                  /\ bus_stats' = bus_stats
                  /\ memory' = memory
      ]_vars

\* C21 witness: cache 0 wrote 7, cache 1 then wrote 7 over it (the line was
\* Modified in the other cache and the byte already 7) and read it back as
\* a hit.
C21_Witness ==
    /\ line_size = 1
    /\ msteps = 3
    /\ mop = [op |-> "read", cache |-> 1, addr |-> BASE_ADDR, value |-> 7]
    /\ bus_stats = [busrd |-> 0, busrdx |-> 2, busupgr |-> 0,
                    invalidations |-> 1, writebacks |-> 1]
    /\ memory.mem[BASE_ADDR] = 7
    /\ cache_stats[1].read_hits = 1
    /\ peek(1, BASE_ADDR) = "M"

\* C22: on a fresh system, when one cache reads an address (and becomes
\* Exclusive) and the other cache then reads the same address, both hold the
\* line Shared, both reads returned the memory byte, and the bus counted
\* exactly 2 BusRd and nothing else.
C22_MesiSecondReaderShares ==
    [][ /\ (msteps = 0 /\ mop'.op = "read") =>
              peek_next(mop'.cache, align_base(mop'.addr)) = "E"
        /\ \A c \in Caches, a \in Addrs :
              (msteps = 1 /\ mop.op = "read" /\ mop.cache = 1 - c /\ mop.addr = a
                 /\ read_byte(c, a)) =>
                  /\ peek_next(c, align_base(a)) = "S"
                  /\ peek_next(1 - c, align_base(a)) = "S"
                  /\ mop.value = InitPattern(a - BASE_ADDR)
                  /\ mop'.value = InitPattern(a - BASE_ADDR)
                  /\ bus_stats' = [busrd |-> 2, busrdx |-> 0, busupgr |-> 0,
                                   invalidations |-> 0, writebacks |-> 0]
      ]_vars

\* C22 witness: cache 0 then cache 1 read the second byte of memory; both
\* hold its line Shared.
C22_Witness ==
    /\ msteps = 2
    /\ mop = [op |-> "read", cache |-> 1, addr |-> BASE_ADDR + 1, value |-> InitPattern(1)]
    /\ cache_stats[0].read_misses = 1
    /\ cache_stats[1].read_misses = 1
    /\ peek(0, align_base(BASE_ADDR + 1)) = "S"
    /\ peek(1, align_base(BASE_ADDR + 1)) = "S"
    /\ bus_stats.busrd = 2

\* C23: each cache's lru list holds exactly the keys of its lines, each
\* once; every key is aligned to the line size from the memory base; every
\* line's data has line_size bytes.
C23_MesiCacheIntegrity ==
    \A c \in Caches :
        /\ {lru[c][i] : i \in 1..Len(lru[c])} = DOMAIN lines[c]
        /\ Len(lru[c]) = Cardinality(DOMAIN lines[c])
        /\ \A b \in DOMAIN lines[c] :
              /\ align_base(b) = b
              /\ lines[c][b].base = b
              /\ Len(lines[c][b].data) = line_size

\* C23 witness: a cache of two one-byte lines re-installed a line that had
\* been invalidated, evicting on the way, and its lru order is not the
\* install order.
C23_Witness ==
    /\ line_size = 1
    /\ capacity_lines = 2
    /\ \E c \in Caches :
          /\ cache_stats[c].evictions = 1
          /\ lru[c] = <<BASE_ADDR + 1, BASE_ADDR>>
          /\ DOMAIN lines[c] = {BASE_ADDR, BASE_ADDR + 1}

\* ========================================================================
\* MSI directory-based coherence system, generation 1
\* ========================================================================
INVALID == 0
SHARED == 1
MODIFIED == 2

PR_RD == 0
PR_WR == 1

Snoop_BUS_RD == 0
Snoop_BUS_RDX == 1
Snoop_BUS_UPGR == 2

BUS_RD == 1
BUS_RDX == 2
BUS_UPGR == 3
EVICT_CLEAN == 4
EVICT_DIRTY == 5
SNOOP_BUS_RD == 17
SNOOP_BUS_RDX == 18
SNOOP_BUS_UPGR == 19

NoCmd == 0                   \* issue_cmd is None
num_cores == 2               \* DirectoryController(num_cores=2)
Cores == 0 .. (num_cores - 1)
MsiAddrs == {16, 32}
WData == {2571, 7197}        \* 0x0A0B, 0x1C1D
Strobes == {0, 15}           \* read (no strobe), full-strobe write

\* The request record of the msi module: the fields a constructor call
\* leaves out take the record's defaults; mem_ready defaults to acknowledged.
DefaultMemReady == TRUE

TransitionResult(next_state, issue_cmd, flush) ==
    [next_state |-> next_state, issue_cmd |-> issue_cmd, flush |-> flush]

\* pack_cmd: (payload << 16) | ((core_id & 0xFF) << 8) | (cmd & 0xFF)
pack_cmd(cmd, core_id, payload) ==
    payload * 65536 + (core_id % 256) * 256 + (cmd % 256)

\* unpack_cmd
unpack_cmd(word) ==
    [cmd |-> word % 256, core_id |-> (word \div 256) % 256, payload |-> word \div 65536]

Byte(v, i) == (v \div Pow2(8 * i)) % 256

\* one lane of apply_wstrb: result = (result & ~mask_i) | (new_value & mask_i)
Lane(old_value, new_value, wstrb, i) ==
    IF (wstrb \div Pow2(i)) % 2 = 1 THEN Byte(new_value, i) * Pow2(8 * i)
    ELSE Byte(old_value, i) * Pow2(8 * i)

\* apply_wstrb: lanes 0..3 are merged (words stay below 2^31 here)
apply_wstrb(old_value, new_value, wstrb) ==
    Lane(old_value, new_value, wstrb, 0) + Lane(old_value, new_value, wstrb, 1)
    + Lane(old_value, new_value, wstrb, 2) + Lane(old_value, new_value, wstrb, 3)

\* on_processor_event
on_processor_event(state, event) ==
    IF state = INVALID
    THEN IF event = PR_RD THEN TransitionResult(SHARED, BUS_RD, FALSE)
                          ELSE TransitionResult(MODIFIED, BUS_RDX, FALSE)
    ELSE IF state = SHARED
    THEN IF event = PR_RD THEN TransitionResult(SHARED, NoCmd, FALSE)
                          ELSE TransitionResult(MODIFIED, BUS_UPGR, FALSE)
    ELSE TransitionResult(MODIFIED, NoCmd, FALSE)

\* mutation of on_snoop_event: a Modified line is invalidated by BusUpgr
on_snoop_event_UpgrInvalidates(state, event) ==
    IF state = INVALID THEN TransitionResult(INVALID, NoCmd, FALSE)
    ELSE IF state = SHARED
    THEN IF event = Snoop_BUS_RD THEN TransitionResult(SHARED, NoCmd, FALSE)
                                 ELSE TransitionResult(INVALID, NoCmd, FALSE)
    ELSE IF event = Snoop_BUS_RD THEN TransitionResult(SHARED, NoCmd, TRUE)
    ELSE IF event = Snoop_BUS_RDX THEN TransitionResult(INVALID, NoCmd, TRUE)
    ELSE TransitionResult(INVALID, NoCmd, FALSE)

\* on_snoop_event
on_snoop_event(state, event) ==
    IF state = INVALID THEN TransitionResult(INVALID, NoCmd, FALSE)
    ELSE IF state = SHARED
    THEN IF event = Snoop_BUS_RD THEN TransitionResult(SHARED, NoCmd, FALSE)
                                 ELSE TransitionResult(INVALID, NoCmd, FALSE)
    ELSE IF event = Snoop_BUS_RD THEN TransitionResult(SHARED, NoCmd, TRUE)
    ELSE IF event = Snoop_BUS_RDX THEN TransitionResult(INVALID, NoCmd, TRUE)
    ELSE TransitionResult(MODIFIED, NoCmd, FALSE)

\* bit operations on the sharers mask
Bit(mask, c) == (mask \div Pow2(c)) % 2
SetBit(mask, c) == IF Bit(mask, c) = 1 THEN mask ELSE mask + Pow2(c)
ClearBit(mask, c) == IF Bit(mask, c) = 1 THEN mask - Pow2(c) ELSE mask

RECURSIVE BitAnd(_, _)
BitAnd(a, b) ==
    IF a = 0 \/ b = 0 THEN 0
    ELSE (a % 2) * (b % 2) + 2 * BitAnd(a \div 2, b \div 2)

RECURSIVE bit_length(_)
bit_length(n) == IF n = 0 THEN 0 ELSE 1 + bit_length(n \div 2)

NoOwner == -1                \* owner() returns None

\* DirectoryEntry.owner
owner(entry) ==
    IF entry.state # MODIFIED THEN NoOwner
    ELSE IF entry.sharers = 0 THEN NoOwner
    ELSE IF BitAnd(entry.sharers, entry.sharers - 1) # 0 THEN NoOwner
    ELSE bit_length(entry.sharers) - 1

\* a raised exception: the operation stops, what was written so far stays
Raise(m) == [m EXCEPT !.err = TRUE]

\* mutation of handle_snoop: the snooped line keeps its state
handle_snoop_KeepState(m, c, addr, packed_cmd) ==
    LET line == m.lines[c][addr]
        cmd == unpack_cmd(packed_cmd).cmd
        event == IF cmd = SNOOP_BUS_RD THEN Snoop_BUS_RD
                 ELSE IF cmd = SNOOP_BUS_RDX THEN Snoop_BUS_RDX
                 ELSE Snoop_BUS_UPGR
        tr == on_snoop_event(line.state, event)
    IN  [m |-> m, data |-> IF tr.flush THEN line.data ELSE 0]

\* CacheController._handle_snoop
handle_snoop(m, c, addr, packed_cmd) ==
    LET line == m.lines[c][addr]
        cmd == unpack_cmd(packed_cmd).cmd
        event == IF cmd = SNOOP_BUS_RD THEN Snoop_BUS_RD
                 ELSE IF cmd = SNOOP_BUS_RDX THEN Snoop_BUS_RDX
                 ELSE Snoop_BUS_UPGR
        tr == on_snoop_event(line.state, event)
    IN  IF cmd \notin {SNOOP_BUS_RD, SNOOP_BUS_RDX, SNOOP_BUS_UPGR}
        THEN [m |-> Raise(m), data |-> 0]
        ELSE [m |-> [m EXCEPT !.lines[c][addr].state = tr.next_state],
              data |-> IF tr.flush THEN line.data ELSE 0]

\* CacheController.axi_handler, coherence traffic (mem_instr set): the
\* snoop answer goes into mem_rdata, mem_ready is left as it came
cache_snoop_port(m, c, req) ==
    LET Reply(r) == [m |-> r.m, mem_rdata |-> r.data, mem_ready |-> req.mem_ready]
    IN  Reply(handle_snoop(m, c, req.mem_addr, req.mem_wdata))

\* DirectoryController._send_snoop
send_snoop(m, target_core, addr, snoop_cmd, requester) ==
    LET req == [mem_valid |-> TRUE, mem_instr |-> TRUE, mem_addr |-> addr,
                mem_wdata |-> pack_cmd(snoop_cmd, requester, 0), mem_wstrb |-> 15,
                mem_ready |-> DefaultMemReady]
        Answer(resp) ==
            IF resp.m.err THEN [m |-> resp.m, data |-> 0]
            ELSE IF ~resp.mem_ready THEN [m |-> Raise(resp.m), data |-> 0]
            ELSE [m |-> resp.m, data |-> resp.mem_rdata]
    IN  Answer(cache_snoop_port(m, target_core, req))

MemGet(m, addr) == m.mem[addr]       \* self.memory.get(addr, 0)

\* mutation of bus_rd: the owner is downgraded but its data is not written
\* to memory
bus_rd_StaleMemory(m, requester, addr) ==
    LET entry == m.entries[addr]
        own == owner(entry)
        Result(r2) == [m |-> r2, data |-> MemGet(r2, addr)]
        Share(r) == Result([r EXCEPT !.entries[addr].state = SHARED,
                                     !.entries[addr].sharers =
                                         IF entry.state = INVALID THEN Pow2(requester)
                                         ELSE SetBit(@, requester)])
    IN  Share(IF entry.state = MODIFIED /\ own # NoOwner /\ own # requester
              THEN send_snoop(m, own, addr, SNOOP_BUS_RD, requester).m
              ELSE m)

\* DirectoryController._bus_rd
bus_rd(m, requester, addr) ==
    LET entry == m.entries[addr]
        own == owner(entry)
        \* the owner's flushed data goes to memory, the owner stays a sharer
        Flushed(sn) ==
            IF sn.m.err THEN sn.m
            ELSE [sn.m EXCEPT !.mem[addr] = sn.data,
                              !.entries[addr].sharers = SetBit(@, own)]
        Result(r2) == [m |-> r2, data |-> MemGet(r2, addr)]
        Share(r) ==
            IF r.err THEN [m |-> r, data |-> 0]
            ELSE Result([r EXCEPT !.entries[addr].state = SHARED,
                                  !.entries[addr].sharers = SetBit(@, requester)])
    IN  IF entry.state = INVALID
        THEN [m |-> [m EXCEPT !.entries[addr] =
                        [state |-> SHARED, sharers |-> Pow2(requester)]],
              data |-> MemGet(m, addr)]
        ELSE IF entry.state = SHARED
        THEN [m |-> [m EXCEPT !.entries[addr].sharers = SetBit(@, requester)],
              data |-> MemGet(m, addr)]
        ELSE Share(IF own # NoOwner /\ own # requester
                   THEN Flushed(send_snoop(m, own, addr, SNOOP_BUS_RD, requester))
                   ELSE m)

\* the invalidation loop of _bus_rdx / _bus_upgr: for c in range(num_cores)
RECURSIVE InvalidateSharers(_, _, _, _, _)
InvalidateSharers(m, c, requester, addr, snoop_cmd) ==
    IF c = num_cores \/ m.err THEN m
    ELSE InvalidateSharers(
             IF c # requester /\ Bit(m.entries[addr].sharers, c) = 1
             THEN send_snoop(m, c, addr, snoop_cmd, requester).m
             ELSE m,
             c + 1, requester, addr, snoop_cmd)

\* mutation of bus_rdx: the previous owner is invalidated but its flushed
\* data is not written to memory
bus_rdx_DropFlush(m, requester, addr) ==
    LET entry == m.entries[addr]
        data == MemGet(m, addr)
        own == owner(entry)
        grant(x) == [x EXCEPT !.entries[addr] =
                        [state |-> MODIFIED, sharers |-> Pow2(requester)]]
        Invalidated(r) ==
            IF r.err THEN [m |-> r, data |-> 0] ELSE [m |-> grant(r), data |-> data]
        Flushed(sn) ==
            IF sn.m.err THEN [m |-> sn.m, data |-> 0]
            ELSE [m |-> grant(sn.m), data |-> sn.data]
    IN  IF entry.state = INVALID THEN [m |-> grant(m), data |-> data]
        ELSE IF entry.state = SHARED
        THEN Invalidated(InvalidateSharers(m, 0, requester, addr, SNOOP_BUS_RDX))
        ELSE IF own # NoOwner /\ own # requester
        THEN Flushed(send_snoop(m, own, addr, SNOOP_BUS_RDX, requester))
        ELSE [m |-> grant(m), data |-> data]

\* DirectoryController._bus_rdx
bus_rdx(m, requester, addr) ==
    LET entry == m.entries[addr]
        data == MemGet(m, addr)
        own == owner(entry)
        grant(x) == [x EXCEPT !.entries[addr] =
                        [state |-> MODIFIED, sharers |-> Pow2(requester)]]
        Invalidated(r) ==
            IF r.err THEN [m |-> r, data |-> 0] ELSE [m |-> grant(r), data |-> data]
        Flushed(sn) ==
            IF sn.m.err THEN [m |-> sn.m, data |-> 0]
            ELSE [m |-> grant([sn.m EXCEPT !.mem[addr] = sn.data]), data |-> sn.data]
    IN  IF entry.state = INVALID THEN [m |-> grant(m), data |-> data]
        ELSE IF entry.state = SHARED
        THEN Invalidated(InvalidateSharers(m, 0, requester, addr, SNOOP_BUS_RDX))
        ELSE IF own # NoOwner /\ own # requester
        THEN Flushed(send_snoop(m, own, addr, SNOOP_BUS_RDX, requester))
        ELSE [m |-> grant(m), data |-> data]

\* DirectoryController._bus_upgr
bus_upgr(m, requester, addr) ==
    LET Upgraded(r) ==
            IF r.err THEN [m |-> r, data |-> 0]
            ELSE [m |-> [r EXCEPT !.entries[addr] =
                            [state |-> MODIFIED, sharers |-> Pow2(requester)]],
                  data |-> MemGet(r, addr)]
    IN  IF m.entries[addr].state = SHARED
        THEN Upgraded(InvalidateSharers(m, 0, requester, addr, SNOOP_BUS_UPGR))
        ELSE bus_rdx(m, requester, addr)

\* mutation of evict_clean: the directory entry is left as it was
evict_clean_KeepEntry(m, requester, addr) == m

\* DirectoryController._evict_clean
evict_clean(m, requester, addr) ==
    LET sh == ClearBit(m.entries[addr].sharers, requester)
        e1 == [m.entries[addr] EXCEPT !.sharers = sh]
    IN  [m EXCEPT !.entries[addr] =
            IF sh = 0 THEN [e1 EXCEPT !.state = INVALID]
            ELSE IF e1.state = MODIFIED /\ owner(e1) = NoOwner
                 THEN [e1 EXCEPT !.state = SHARED]
            ELSE e1]

\* mutation of evict_dirty: the evicted data is not written to memory
evict_dirty_NoWriteback(m, requester, addr, data) ==
    evict_clean(m, requester, addr)

\* DirectoryController._evict_dirty
evict_dirty(m, requester, addr, data) ==
    evict_clean([m EXCEPT !.mem[addr] = data], requester, addr)

\* DirectoryController._handle_coherence
handle_coherence(m, addr, packed_cmd) ==
    LET u == unpack_cmd(packed_cmd)
    IN  IF u.cmd = BUS_RD THEN bus_rd(m, u.core_id, addr)
        ELSE IF u.cmd = BUS_RDX THEN bus_rdx(m, u.core_id, addr)
        ELSE IF u.cmd = BUS_UPGR THEN bus_upgr(m, u.core_id, addr)
        ELSE IF u.cmd = EVICT_CLEAN
             THEN [m |-> evict_clean(m, u.core_id, addr), data |-> 0]
        ELSE IF u.cmd = EVICT_DIRTY
             THEN [m |-> evict_dirty(m, u.core_id, addr, u.payload), data |-> 0]
        ELSE [m |-> Raise(m), data |-> 0]

\* DirectoryController.axi_handler, coherence traffic
directory_axi_handler(m, req) ==
    LET Reply(r) == [m |-> r.m, mem_rdata |-> r.data, mem_ready |-> TRUE]
    IN  IF ~req.mem_valid THEN [m |-> m, mem_rdata |-> 0, mem_ready |-> FALSE]
        ELSE Reply(handle_coherence(m, req.mem_addr, req.mem_wdata))

\* CacheController._send_dir_cmd
send_dir_cmd(m, c, cmd, addr, payload) ==
    LET req == [mem_valid |-> TRUE, mem_instr |-> TRUE, mem_addr |-> addr,
                mem_wdata |-> pack_cmd(cmd, c, payload), mem_wstrb |-> 15,
                mem_ready |-> DefaultMemReady]
        Answer(resp) ==
            IF resp.m.err THEN [m |-> resp.m, data |-> 0]
            ELSE IF ~resp.mem_ready THEN [m |-> Raise(resp.m), data |-> 0]
            ELSE [m |-> resp.m, data |-> resp.mem_rdata]
    IN  Answer(directory_axi_handler(m, req))

\* CacheController._cpu_read
cpu_read(m, c, addr) ==
    LET tr == on_processor_event(m.lines[c][addr].state, PR_RD)
        \* the directory's answer fills the line
        Filled(d) ==
            IF d.m.err THEN d.m ELSE [d.m EXCEPT !.lines[c][addr].data = d.data]
        Done(r) ==
            IF r.err THEN [m |-> r, data |-> 0]
            ELSE [m |-> [r EXCEPT !.lines[c][addr].state = tr.next_state],
                  data |-> r.lines[c][addr].data]
    IN  Done(IF tr.issue_cmd # NoCmd
             THEN Filled(send_dir_cmd(m, c, tr.issue_cmd, addr, 0))
             ELSE m)

\* CacheController._cpu_write
cpu_write(m, c, addr, wdata, wstrb) ==
    LET tr == on_processor_event(m.lines[c][addr].state, PR_WR)
        Merged(r) == apply_wstrb(r.lines[c][addr].data, wdata, wstrb)
        Done(r) ==
            IF r.err THEN [m |-> r, data |-> 0]
            ELSE [m |-> [r EXCEPT !.lines[c][addr] =
                            [state |-> tr.next_state, data |-> Merged(r)]],
                  data |-> Merged(r)]
    IN  Done(IF tr.issue_cmd # NoCmd
             THEN send_dir_cmd(m, c, tr.issue_cmd, addr, 0).m
             ELSE m)

\* mutation of evict: a Shared line is dropped without telling the directory
evict_SilentClean(m, c, addr) ==
    LET line == m.lines[c][addr]
        Done(r) == IF r.err THEN r ELSE [r EXCEPT !.lines[c][addr].state = INVALID]
    IN  Done(IF line.state = MODIFIED
             THEN send_dir_cmd(m, c, EVICT_DIRTY, addr, line.data).m
             ELSE m)

\* CacheController.evict (lines are created on first touch as INVALID/0, so
\* an absent line and an INVALID line take the same path)
evict(m, c, addr) ==
    LET line == m.lines[c][addr]
        Done(r) == IF r.err THEN r ELSE [r EXCEPT !.lines[c][addr].state = INVALID]
    IN  Done(IF line.state = MODIFIED
             THEN send_dir_cmd(m, c, EVICT_DIRTY, addr, line.data).m
             ELSE IF line.state = SHARED
             THEN send_dir_cmd(m, c, EVICT_CLEAN, addr, 0).m
             ELSE m)

Msi == [lines |-> msi_lines, entries |-> dir_entries, mem |-> dir_memory, err |-> FALSE]

SetMsi(m) ==
    /\ msi_lines' = m.lines
    /\ dir_entries' = m.entries
    /\ dir_memory' = m.mem

\* CacheController.axi_handler, CPU traffic: TestSystem.cpu_read / cpu_write
\* (what the call does to the generation-1 system)
CpuRequestStep(c, addr, wdata, wstrb) ==
    /\ msi_op.ok
    /\ \E r \in {IF wstrb = 0 THEN cpu_read(Msi, c, addr)
                 ELSE cpu_write(Msi, c, addr, wdata, wstrb)} :
           /\ SetMsi(r.m)
           /\ msi_op' = [kind |-> IF wstrb = 0 THEN "read" ELSE "write",
                         cache |-> c, addr |-> addr, value |-> r.data,
                         ok |-> ~r.m.err]
    /\ msi_truth' = [msi_truth EXCEPT ![addr] = apply_wstrb(@, wdata, wstrb)]
    /\ msi_partial' = (msi_partial \/ wstrb \notin {0, 15})

CpuRequest(c, addr, wdata, wstrb) ==
    CpuRequestStep(c, addr, wdata, wstrb) /\ UNCHANGED outsideMSI

\* CacheController.evict called by the harness (what the call does to the
\* generation-1 system)
EvictStep(c, addr) ==
    /\ msi_op.ok
    /\ \E r \in {evict(Msi, c, addr)} :
           /\ SetMsi(r)
           /\ msi_op' = [kind |-> "evict", cache |-> c, addr |-> addr,
                         value |-> 0, ok |-> ~r.err]
    /\ UNCHANGED <<msi_truth, msi_partial>>

Evict(c, addr) == EvictStep(c, addr) /\ UNCHANGED outsideMSI

\* TestSystem.__init__: empty caches, empty directory, memory reads as 0
TestSystem ==
    /\ msi_lines = [c \in Cores |-> [a \in MsiAddrs |-> [state |-> INVALID, data |-> 0]]]
    /\ dir_entries = [a \in MsiAddrs |-> [state |-> INVALID, sharers |-> 0]]
    /\ dir_memory = [a \in MsiAddrs |-> 0]
    /\ msi_truth = [a \in MsiAddrs |-> 0]
    /\ msi_partial = FALSE
    /\ msi_op = [kind |-> "none", cache |-> 0, addr |-> 16, value |-> 0, ok |-> TRUE]

InitMSI == TestSystem /\ IdleMESI /\ IdleWRR /\ IdleBidir /\ IdleCPU /\ IdleLater("none")

MsiCpu == \E c \in Cores, a \in MsiAddrs, d \in WData, w \in Strobes : CpuRequest(c, a, d, w)
MsiEvict == \E c \in Cores, a \in MsiAddrs : Evict(c, a)

NextMSI == MsiCpu \/ MsiEvict

SpecMSI == InitMSI /\ [][NextMSI]_vars

\* ---- MSI generation-1 claims ------------------------------------------
MsiState(c, a) == msi_lines[c][a].state

OneBit(mask) == mask # 0 /\ BitAnd(mask, mask - 1) = 0

PartialAddrs == {16}
PartialStrobes == {0, 1, 15}

MsiCpuPartial ==
    \E c \in Cores, a \in PartialAddrs, d \in WData, w \in PartialStrobes : CpuRequest(c, a, d, w)

MsiEvictPartial == \E c \in Cores, a \in PartialAddrs : Evict(c, a)

NextMSIPartial == MsiCpuPartial \/ MsiEvictPartial

SpecMSIPartial == InitMSI /\ [][NextMSIPartial]_vars

\* the coherent value of an address: the owner's copy while a cache holds the
\* line Modified (what it flushes when snooped), else the directory's memory
CoherentValue(a) ==
    IF \E o \in Cores : MsiState(o, a) = MODIFIED
    THEN msi_lines[CHOOSE o \in Cores : MsiState(o, a) = MODIFIED][a].data
    ELSE dir_memory[a]

\* C32: a completed CPU write of data d with strobe w leaves the writer's line
\* holding apply_wstrb(V, d, w), V being the coherent value of the address
\* just before the write, whatever state the writer held the line in.
C32_MsiWriteAllocate ==
    [][ \A c \in Cores, a \in PartialAddrs, d \in WData, w \in PartialStrobes \ {0} :
          (CpuRequest(c, a, d, w) /\ msi_op'.ok) =>
              /\ msi_lines'[c][a].state = MODIFIED
              /\ msi_lines'[c][a].data = apply_wstrb(CoherentValue(a), d, w)
      ]_vars

\* ========================================================================
\* Weighted round-robin arbiters
\* ========================================================================
MaxRequesters == 3           \* arbiters with 2 .. MaxRequesters requesters
MaxWeight == 3               \* weights 1 .. MaxWeight

Variants == {"standalone", "axi", "model"}

RECURSIVE SeqSum(_)
SeqSum(s) == IF s = <<>> THEN 0 ELSE Head(s) + SeqSum(Tail(s))

RECURSIVE SeqMax(_)
SeqMax(s) == IF Len(s) = 1 THEN Head(s)
             ELSE IF Head(s) > SeqMax(Tail(s)) THEN Head(s) ELSE SeqMax(Tail(s))

num_requesters == Len(weights)

\* mutation of max_attempts: the search gives up one step too early
max_attempts_Short(v) == num_requesters - 1

\* mutation of max_attempts: only the standalone arbiter gives up after one step
max_attempts_StandaloneShort(v) ==
    IF v = "standalone" THEN 1 ELSE SeqSum(weights)

\* the bound of the search loop: num_requesters * max(weights) in the
\* standalone arbiter, sum(weights) in the AXI arbiter and the test model
max_attempts(v) ==
    IF v = "standalone" THEN num_requesters * SeqMax(weights) ELSE SeqSum(weights)

Zeros == [i \in 1..num_requesters |-> 0]

OneHot(idx) == [i \in 1..num_requesters |-> IF i = idx + 1 THEN 1 ELSE 0]

\* mutation of Advance: the next requester inherits the credits left over
Advance_KeepCredits(a) ==
    [a EXCEPT !.current_index = (@ + 1) % num_requesters]

\* moving to the next requester reloads its full weight
Advance(a) ==
    LET nxt == (a.current_index + 1) % num_requesters
    IN  [current_index |-> nxt, remaining_credits |-> weights[nxt + 1]]

\* mutation of GrantCurrent: after the credits run out the arbiter moves on
\* but gives the next requester a single credit
GrantCurrent_OneCredit(a) ==
    IF a.remaining_credits - 1 = 0
    THEN [current_index |-> (a.current_index + 1) % num_requesters,
          remaining_credits |-> 1]
    ELSE [a EXCEPT !.remaining_credits = @ - 1]

\* the grant branch of arbitrate: decrement, move on when exhausted
GrantCurrent(a) ==
    IF a.remaining_credits - 1 = 0 THEN Advance(a)
    ELSE [a EXCEPT !.remaining_credits = @ - 1]

\* the while loop of arbitrate
RECURSIVE ArbLoop(_, _, _, _)
ArbLoop(a, requests, attempts, bound) ==
    IF attempts >= bound
    THEN [a |-> a, grant |-> Zeros, timeout |-> TRUE, attempts |-> attempts]
    ELSE IF requests[a.current_index + 1] = 1
    THEN [a |-> GrantCurrent(a), grant |-> OneHot(a.current_index),
          timeout |-> FALSE, attempts |-> attempts]
    ELSE ArbLoop(Advance(a), requests, attempts + 1, bound)

\* mutation of arbitrate: a call without requests still moves to the next
\* requester
arbitrate_AdvanceOnIdle(v, a, requests) ==
    IF SeqSum(requests) = 0
    THEN [a |-> Advance(a), grant |-> Zeros, timeout |-> FALSE, attempts |-> 0]
    ELSE ArbLoop(a, requests, 0, max_attempts(v))

\* WeightedRoundRobinArbiter.arbitrate / WeightedRoundRobinModel.arbitrate.
\* timeout: the fallback after the loop (all-zero grant in the standalone
\* arbiter, an exception in the other two)
arbitrate(v, a, requests) ==
    IF SeqSum(requests) = 0
    THEN [a |-> a, grant |-> Zeros, timeout |-> FALSE, attempts |-> 0]
    ELSE ArbLoop(a, requests, 0, max_attempts(v))

AllOnes == [i \in 1..num_requesters |-> 1]

JustBecameCurrent(a) == a.remaining_credits = weights[a.current_index + 1]

GrantIndex(grant) == CHOOSE i \in 0..(num_requesters - 1) : grant[i + 1] = 1

\* harness bookkeeping: the grants since a requester became current, for as
\* long as every requester keeps requesting; restarts after sum(weights)
NextWindow(w, a, requests, r) ==
    IF requests # AllOnes \/ r.timeout THEN [active |-> FALSE, start |-> 0, grants |-> <<>>]
    ELSE IF w.active /\ Len(w.grants) < SeqSum(weights)
    THEN [w EXCEPT !.grants = Append(@, GrantIndex(r.grant))]
    ELSE IF JustBecameCurrent(a)
    THEN [active |-> TRUE, start |-> a.current_index, grants |-> <<GrantIndex(r.grant)>>]
    ELSE [active |-> FALSE, start |-> 0, grants |-> <<>>]

\* one call of arbitrate on each variant with the same request vector
Arbitrate(requests) ==
    /\ \A v \in Variants : ~wrr_out[v].timeout
    /\ arb' = [v \in Variants |-> arbitrate(v, arb[v], requests).a]
    /\ wrr_out' = [v \in Variants |-> arbitrate(v, arb[v], requests)]
    /\ win' = [v \in Variants |->
                  NextWindow(win[v], arb[v], requests, arbitrate(v, arb[v], requests))]
    /\ wrr_req' = requests
    /\ UNCHANGED weights
    /\ UNCHANGED outsideWRR

\* WeightedRoundRobinArbiter.__init__ with positive weights
InitWRR ==
    /\ weights \in UNION {[1..n -> 1..MaxWeight] : n \in 2..MaxRequesters}
    /\ arb = [v \in Variants |-> [current_index |-> 0, remaining_credits |-> weights[1]]]
    /\ wrr_out = [v \in Variants |->
                     [a |-> [current_index |-> 0, remaining_credits |-> weights[1]],
                      grant |-> [i \in 1..Len(weights) |-> 0],
                      timeout |-> FALSE, attempts |-> 0]]
    /\ wrr_req = [i \in 1..Len(weights) |-> 0]
    /\ win = [v \in Variants |-> [active |-> FALSE, start |-> 0, grants |-> <<>>]]
    /\ IdleMESI /\ IdleMSI /\ IdleBidir /\ IdleCPU /\ IdleLater("none")

NextWRR == \E requests \in [1..num_requesters -> {0, 1}] : Arbitrate(requests)

SpecWRR == InitWRR /\ [][NextWRR]_vars

\* ---- arbiter claims -----------------------------------------------------
\* the grants of one full window that starts with requester k current:
\* w_k times k, then w_(k+1) times k+1, ... in cyclic index order
RECURSIVE Repeat(_, _)
Repeat(x, n) == IF n = 0 THEN <<>> ELSE <<x>> \o Repeat(x, n - 1)

RECURSIVE ExpectedFrom(_, _)
ExpectedFrom(k, left) ==
    IF left = 0 THEN <<>>
    ELSE Repeat(k, weights[k + 1]) \o ExpectedFrom((k + 1) % num_requesters, left - 1)

ExpectedWindow(k) == ExpectedFrom(k, num_requesters)

\* C6: with every requester requesting on every call, from a state at which
\* a requester has just become current, each window of sum(weights) calls
\* grants requester i exactly w_i times, consecutively, in cyclic order.
C6_WrrFairWindow ==
    \A v \in Variants :
        win[v].active =>
            /\ Len(win[v].grants) <= SeqSum(weights)
            /\ win[v].grants = SubSeq(ExpectedWindow(win[v].start), 1, Len(win[v].grants))
            /\ Len(win[v].grants) = SeqSum(weights) => JustBecameCurrent(arb[v])

\* C6 witness: a complete window of three requesters with unequal weights
\* that started at a requester other than 0.
C6_Witness ==
    \A v \in Variants :
        /\ win[v].active
        /\ num_requesters = 3
        /\ Len(win[v].grants) = SeqSum(weights)
        /\ win[v].start # 0
        /\ weights[1] # weights[2]
        /\ weights[3] > 1
        /\ \A i \in 0..2 :
              Cardinality({j \in 1..Len(win[v].grants) : win[v].grants[j] = i}) = weights[i + 1]


\* C12: with positive weights, from every reachable (current index, remaining
\* credit) and for every request vector, arbitrate ends before its attempt
\* counter reaches the bound of its variant; the timeout fallback is never
\* reached.
C12_WrrNoTimeout ==
    \A v \in Variants :
        /\ ~wrr_out[v].timeout
        /\ wrr_out[v].attempts < max_attempts(v)

\* C12 witness: three requesters of weight 1 (attempt bound 3 in every
\* variant), the grant came after passing over the two others.
C12_Witness ==
    /\ weights = <<1, 1, 1>>
    /\ SeqSum(wrr_req) = 1
    /\ \A v \in Variants :
          /\ wrr_out[v].attempts = 2
          /\ wrr_out[v].grant = wrr_req
          /\ ~wrr_out[v].timeout

\* C13: a requester that is not requesting is never granted and is passed
\* over in one step whatever its weight: the attempts of a call count the
\* idle requesters between the current one and the granted one, and a
\* requester that becomes current this way starts from its full weight.
C13_WrrIdleSkip ==
    [][ \A v \in Variants :
          SeqSum(wrr_req') > 0 =>
             LET r == wrr_out'[v]
                 g == GrantIndex(r.grant)
                 from == arb[v].current_index
             IN  /\ wrr_req'[g + 1] = 1
                 /\ r.attempts = (g - from) % num_requesters
                 /\ \A k \in 0 .. (r.attempts - 1) :
                        wrr_req'[((from + k) % num_requesters) + 1] = 0
                 /\ g # from =>
                        arb'[v] = GrantCurrent([current_index |-> g,
                                                remaining_credits |-> weights[g + 1]])
      ]_vars

\* C13 witness: two idle requesters of weight 3 were passed over in two
\* steps and the third was granted out of its full weight of 2.
C13_Witness ==
    /\ weights = <<3, 3, 2>>
    /\ wrr_req = <<0, 0, 1>>
    /\ \A v \in Variants :
          /\ wrr_out[v].attempts = 2
          /\ wrr_out[v].grant = <<0, 0, 1>>
          /\ arb[v] = [current_index |-> 2, remaining_credits |-> 1]

\* C14: arbitrate returns the all-zero vector exactly when nobody requests,
\* and then leaves current index and remaining credit as they were;
\* otherwise the grant has exactly one 1, at a requesting index.
C14_WrrGrantShape ==
    [][ \A v \in Variants :
          LET grant == wrr_out'[v].grant
          IN  /\ (grant = Zeros) <=> (SeqSum(wrr_req') = 0)
              /\ SeqSum(wrr_req') = 0 => arb'[v] = arb[v]
              /\ SeqSum(wrr_req') > 0 =>
                    /\ SeqSum(grant) = 1
                    /\ \A i \in 1 .. num_requesters : grant[i] = 1 => wrr_req'[i] = 1
      ]_vars

\* C14 witness: a call without requests in the middle of a requester's
\* burst: nothing granted, the credit counter still part-way down.
C14_Witness ==
    /\ wrr_req = Zeros
    /\ \A v \in Variants :
          /\ wrr_out[v].grant = Zeros
          /\ arb[v].current_index = 1
          /\ arb[v].remaining_credits < weights[2]
          /\ arb[v].remaining_credits > 0

\* C16: for the same weights and the same sequence of request vectors the
\* standalone arbiter, the AXI arbiter and the reference model return the
\* same grant on every call and hold the same current index and remaining
\* credit after every call.
C16_WrrVariantsAgree ==
    \A v \in Variants, u \in Variants :
        /\ wrr_out[v].grant = wrr_out[u].grant
        /\ arb[v] = arb[u]

\* C16 witness: weights for which the two loop bounds differ (3 * 3 against
\* 3 + 1 + 1), after a grant that wrapped around past two idle requesters.
C16_Witness ==
    /\ weights = <<3, 1, 1>>
    /\ max_attempts("standalone") # max_attempts("axi")
    /\ wrr_req = <<1, 0, 0>>
    /\ \A v \in Variants :
          /\ wrr_out[v].attempts = 2
          /\ wrr_out[v].grant = <<1, 0, 0>>
          /\ arb[v] = [current_index |-> 0, remaining_credits |-> 2]

\* ========================================================================
\* Bidirectional serializer: two instances on one shared serial wire
\* ========================================================================
MsgSize == 2                 \* tdata_size = rdata_size of both sides
PinCounts == {1, 2}          \* num_pins

Sides == {0, 1}

\* deques as sequences, left end first; the messages a side may present:
\* a cleared deque and a two-bit message
Messages == {<<>>, <<1, 0>>}

\* deque.append with maxlen: a full deque drops its left end
DequeAppend(q, x, maxlen) ==
    IF Len(q) >= maxlen THEN Tail(Append(q, x)) ELSE Append(q, x)

\* deque.appendleft with maxlen: a full deque drops its right end
DequeAppendLeft(q, x, maxlen) ==
    IF Len(q) >= maxlen THEN SubSeq(<<x>> \o q, 1, maxlen) ELSE <<x>> \o q

RECURSIVE DequeExtendLeft(_, _, _)
DequeExtendLeft(q, items, maxlen) ==
    IF items = <<>> THEN q
    ELSE DequeExtendLeft(DequeAppendLeft(q, Head(items), maxlen), Tail(items), maxlen)

RECURSIVE PadZeros(_, _, _)
PadZeros(q, n, maxlen) ==
    IF n = 0 THEN q ELSE PadZeros(DequeAppend(q, 0, maxlen), n - 1, maxlen)

\* the build-packet loop: num_pins pops from the right end; popping an
\* empty deque raises IndexError
RECURSIVE PopChunk(_, _, _)
PopChunk(q, output, n) ==
    IF n = 0 THEN [q |-> q, output |-> output, err |-> "none"]
    ELSE IF q = <<>> THEN [q |-> q, output |-> output, err |-> "IndexError"]
    ELSE PopChunk(SubSeq(q, 1, Len(q) - 1), Append(output, q[Len(q)]), n - 1)

\* bidir_serializer._send_serial_packet
bidir_send_serial_packet(d) ==
    LET padded == PadZeros(d.tdata_r, Len(d.tdata_r) % num_pins, MsgSize)
        r == PopChunk(padded, <<>>, num_pins)
    IN  IF r.err # "none"
        THEN [d EXCEPT !.tdata_r = r.q, !.err = r.err]
        ELSE [d EXCEPT !.tdata_r = r.q, !.serial_io = r.output]

\* bidir_serializer._receive_serial_packet
bidir_receive_serial_packet(d) ==
    [d EXCEPT !.rdata_o = DequeExtendLeft(@, d.serial_io, MsgSize)]

\* the idle/request branch of cycle_clock, after driving = 0
\* mutation: a side asking to send ignores the peer's request
IdleOrRequest_IgnorePeer(d, req_i, tvalid_i) ==
    LET d_move ==
            IF d.req_o
            THEN bidir_send_serial_packet(
                     [d EXCEPT !.priority = FALSE, !.driving = TRUE,
                               !.tready_o = FALSE, !.state = "send"])
            ELSE IF req_i /\ ((~d.req_o) \/ (~d.priority))
            THEN [d EXCEPT !.priority = TRUE, !.tready_o = FALSE,
                           !.state = "receive", !.req_o = tvalid_i]
            ELSE d
    IN  IF d_move.err # "none" THEN d_move
        ELSE IF d_move.state = "idle"
        THEN [d_move EXCEPT !.req_o = tvalid_i,
                            !.state = IF tvalid_i THEN "request" ELSE "idle"]
        ELSE d_move

IdleOrRequest(d, req_i, tvalid_i) ==
    LET d_move ==
            IF d.req_o /\ ((~req_i) \/ d.priority)
            THEN bidir_send_serial_packet(
                     [d EXCEPT !.priority = FALSE, !.driving = TRUE,
                               !.tready_o = FALSE, !.state = "send"])
            ELSE IF req_i /\ ((~d.req_o) \/ (~d.priority))
            THEN [d EXCEPT !.priority = TRUE, !.tready_o = FALSE,
                           !.state = "receive", !.req_o = tvalid_i]
            ELSE d
    IN  IF d_move.err # "none" THEN d_move
        ELSE IF d_move.state = "idle"
        THEN [d_move EXCEPT !.req_o = tvalid_i,
                            !.state = IF tvalid_i THEN "request" ELSE "idle"]
        ELSE d_move

\* mutation of bidir_cycle_clock: a side that finished sending keeps its
\* request asserted and takes the priority back
bidir_cycle_clock_KeepTurn(d, req_i, serial_i, rready_i, tvalid_i, tdata_i) ==
    LET d_in == [d EXCEPT !.req_i = req_i, !.serial_io = serial_i]
        d_rv == IF rready_i THEN [d_in EXCEPT !.rvalid_o = FALSE] ELSE d_in
        d_ld == IF d_rv.state # "request" /\ d_rv.state # "send"
                THEN [d_rv EXCEPT !.tdata_r = tdata_i] ELSE d_rv
    IN  IF d_ld.state = "idle" \/ d_ld.state = "request"
        THEN IdleOrRequest([d_ld EXCEPT !.driving = FALSE], req_i, tvalid_i)
        ELSE IF d_ld.state = "send"
        THEN IF d_ld.tdata_r # <<>>
             THEN bidir_send_serial_packet(d_ld)
             ELSE [d_ld EXCEPT !.state = "idle", !.driving = FALSE,
                               !.tready_o = TRUE, !.priority = TRUE]
        ELSE \* receive
             IF req_i
             THEN bidir_receive_serial_packet(d_ld)
             ELSE [d_ld EXCEPT !.state = IF d_ld.req_o THEN "request" ELSE "idle",
                               !.rvalid_o = TRUE, !.tready_o = TRUE]

\* bidir_serializer.cycle_clock
bidir_cycle_clock(d, req_i, serial_i, rready_i, tvalid_i, tdata_i) ==
    LET d_in == [d EXCEPT !.req_i = req_i, !.serial_io = serial_i]
        d_rv == IF rready_i THEN [d_in EXCEPT !.rvalid_o = FALSE] ELSE d_in
        d_ld == IF d_rv.state # "request" /\ d_rv.state # "send"
                THEN [d_rv EXCEPT !.tdata_r = tdata_i] ELSE d_rv
    IN  IF d_ld.state = "idle" \/ d_ld.state = "request"
        THEN IdleOrRequest([d_ld EXCEPT !.driving = FALSE], req_i, tvalid_i)
        ELSE IF d_ld.state = "send"
        THEN IF d_ld.tdata_r # <<>>
             THEN bidir_send_serial_packet(d_ld)
             ELSE [d_ld EXCEPT !.state = "idle", !.driving = FALSE,
                               !.tready_o = TRUE, !.req_o = FALSE]
        ELSE \* receive
             IF req_i
             THEN bidir_receive_serial_packet(d_ld)
             ELSE [d_ld EXCEPT !.state = IF d_ld.req_o THEN "request" ELSE "idle",
                               !.rvalid_o = TRUE, !.tready_o = TRUE]

ZeroWire == [i \in 1..num_pins |-> 0]

\* the shared wire after a cycle: side 1 if it drives, else side 0, else zeros
SerialWire(d0, d1) ==
    IF d1.driving THEN d1.serial_io
    ELSE IF d0.driving THEN d0.serial_io
    ELSE ZeroWire

\* bidir_serializer_test.cycle: side 0 is clocked, then side 1, both on the
\* wire and the requests of the previous cycle; an exception in either call
\* or the driving assertion ends the run where it was raised
bidir_cycle(rready, tvalid, tdata) ==
    /\ bidir_err = "none"
    /\ LET d0 == bidir_cycle_clock(dut[0], input_req_i[0], input_serial_i,
                                   rready[0], tvalid[0], tdata[0])
           d1 == bidir_cycle_clock(dut[1], input_req_i[1], input_serial_i,
                                   rready[1], tvalid[1], tdata[1])
       IN  IF d0.err # "none"
           THEN /\ dut' = [dut EXCEPT ![0] = d0]
                /\ bidir_err' = d0.err
                /\ UNCHANGED <<input_req_i, input_serial_i>>
           ELSE IF d1.err # "none"
           THEN /\ dut' = [dut EXCEPT ![0] = d0, ![1] = d1]
                /\ bidir_err' = d1.err
                /\ UNCHANGED <<input_req_i, input_serial_i>>
           ELSE IF d0.driving /\ d1.driving
           THEN /\ dut' = [dut EXCEPT ![0] = d0, ![1] = d1]
                /\ bidir_err' = "AssertionError"
                /\ UNCHANGED <<input_req_i, input_serial_i>>
           ELSE /\ dut' = [dut EXCEPT ![0] = d0, ![1] = d1]
                /\ bidir_err' = "none"
                /\ input_serial_i' = SerialWire(d0, d1)
                /\ input_req_i' = [s \in Sides |-> IF s = 0 THEN d1.req_o ELSE d0.req_o]
    /\ UNCHANGED num_pins

\* one call of cycle with free inputs, nothing else running
BidirCycle(rready, tvalid, tdata) ==
    /\ bidir_cycle(rready, tvalid, tdata)
    /\ UNCHANGED outsideBidir

\* bidir_serializer.__init__
NewSerializer(init_priority) ==
    [serial_io |-> ZeroWire, req_o |-> FALSE, req_i |-> FALSE,
     rvalid_o |-> FALSE, rdata_o |-> <<>>, tready_o |-> TRUE,
     tdata_r |-> <<>>, state |-> "idle", priority |-> init_priority,
     driving |-> FALSE, err |-> "none"]

\* run_tests: the two sides get complementary initial priorities
InitBidir ==
    /\ num_pins \in PinCounts
    /\ \E p \in BOOLEAN : dut = [s \in Sides |-> NewSerializer(IF s = 0 THEN p ELSE ~p)]
    /\ input_req_i = [s \in Sides |-> FALSE]
    /\ input_serial_i = ZeroWire
    /\ bidir_err = "none"
    /\ IdleMESI /\ IdleMSI /\ IdleWRR /\ IdleCPU /\ IdleLater("none")

NextBidir ==
    \E rready \in [Sides -> BOOLEAN], tvalid \in [Sides -> BOOLEAN],
       tdata \in [Sides -> Messages] : BidirCycle(rready, tvalid, tdata)

SpecBidir == InitBidir /\ [][NextBidir]_vars

\* ---- serializer claims --------------------------------------------------
\* C7: two back-to-back bidir_serializer instances with complementary
\* initial priorities never both have driving asserted after a clock cycle,
\* whatever the tvalid / tdata / rready inputs of the two sides are.
C7_BidirNeverBothDriving ==
    ~(dut[0].driving /\ dut[1].driving)

\* C7 witness: both sides asked to send in the same cycle, one of them now
\* drives the wire and the other receives.
C7_Witness ==
    /\ bidir_err = "none"
    /\ dut[1].driving /\ dut[1].state = "send"
    /\ dut[0].state = "receive" /\ dut[0].req_o
    /\ ~dut[0].driving

\* a side holds a latched transmit request and has not begun to send
Pending(d) == d.req_o /\ d.state \in {"request", "receive"}

\* C37: a latched transmit request keeps its message. From the cycle a side
\* has req_o asserted (latched in idle or on entry to receive) until it
\* drives the wire, its shift buffer stays the message that was latched,
\* whatever tvalid and tdata do meanwhile; when it starts to drive, req_o was
\* already asserted at the end of the previous cycle and is the request the
\* peer is clocked with; and starting to send a latched non-empty message
\* does not raise.
C37_BidirLatchedRequest ==
    [][ \A s \in Sides :
          /\ (Pending(dut[s]) /\ Pending(dut'[s]))
                 => dut'[s].tdata_r = dut[s].tdata_r
          /\ (Pending(dut[s]) /\ dut[s].tdata_r # <<>>)
                 => dut'[s].err = "none"
          /\ (~dut[s].driving /\ dut'[s].driving)
                 => dut[s].req_o /\ input_req_i[1 - s]
      ]_vars

\* ========================================================================
\* Multi-core driver: CPU.start_sim, Core, the cooperative arbiter round
\* and the plain memory controller
\* ========================================================================
MaxItemsPerCore == 2         \* work items on each core's stack: 0 .. MaxItemsPerCore
NumCores == 2                \* CPU(2, testcases)

CpuCores == 0..(NumCores - 1)

\* a work item: target address, 32-bit data, write strobe
test_case(data_addr, data, wstb) ==
    [data_addr |-> data_addr, data |-> data, wstb |-> wstb]

\* the work items a test list is built from
CaseSet == {test_case(0, 5, 15), test_case(1, 4660, 15), test_case(1, 9, 0)}

\* Python's None in a slot that otherwise holds an axi_request
None == [none |-> TRUE]

axi_request(mem_valid, mem_instr, mem_ready, mem_addr, mem_wdata, mem_wstrb, mem_rdata) ==
    [mem_valid |-> mem_valid, mem_instr |-> mem_instr, mem_ready |-> mem_ready,
     mem_addr |-> mem_addr, mem_wdata |-> mem_wdata, mem_wstrb |-> mem_wstrb,
     mem_rdata |-> mem_rdata]

\* the request records built by Core.read / read_nothing / write / write_nothing
Core_read(addr) == axi_request(TRUE, FALSE, FALSE, addr, 0, 0, 0)
Core_read_nothing == axi_request(FALSE, FALSE, FALSE, 0, 0, 0, 0)
Core_write(addr_in, data_in, wstb_in) == axi_request(TRUE, FALSE, FALSE, addr_in, data_in, wstb_in, 0)
Core_write_nothing == axi_request(FALSE, FALSE, FALSE, 0, 0, 0, 0)

\* MemoryController.read
MemoryController_read(mem, address) ==
    IF address \in DOMAIN mem THEN mem[address] ELSE 0

\* MemoryController.write: four 4-bit fields of data, strobe bit 0 selecting
\* the highest one
MemoryController_write(mem, address, data, write_strobe) ==
    LET byte0 == data % 16
        byte1 == ((data \div 16) % 16) * 16
        byte2 == ((data \div 256) % 16) * 256
        byte3 == ((data \div 4096) % 16) * 4096
        data_to_write ==
              (IF write_strobe % 2 = 1 THEN byte3 ELSE 0)
            + (IF (write_strobe \div 2) % 2 = 1 THEN byte2 ELSE 0)
            + (IF (write_strobe \div 4) % 2 = 1 THEN byte1 ELSE 0)
            + (IF (write_strobe \div 8) % 2 = 1 THEN byte0 ELSE 0)
    IN  DictPut(mem, address, data_to_write)

\* mutation of MemoryController.axi_handler: mem_ready is never set
MemoryController_axi_handler_NoReady(mem, request) ==
    IF request.mem_valid
    THEN IF request.mem_wstrb = 0
         THEN [sram |-> mem,
               request |-> [request EXCEPT !.mem_rdata = MemoryController_read(mem, request.mem_addr)]]
         ELSE [sram |-> MemoryController_write(mem, request.mem_addr, request.mem_wdata,
                                               request.mem_wstrb),
               request |-> request]
    ELSE [sram |-> mem, request |-> request]

\* MemoryController.axi_handler: the new memory and the (same) request record
MemoryController_axi_handler(mem, request) ==
    IF request.mem_valid
    THEN IF request.mem_wstrb = 0
         THEN [sram |-> mem,
               request |-> [request EXCEPT !.mem_rdata = MemoryController_read(mem, request.mem_addr),
                                           !.mem_ready = TRUE]]
         ELSE [sram |-> MemoryController_write(mem, request.mem_addr, request.mem_wdata,
                                               request.mem_wstrb),
               request |-> [request EXCEPT !.mem_ready = TRUE]]
    ELSE [sram |-> mem, request |-> request]

\* asyncio.Event.set: every coroutine suspended in wait() is released, and
\* stays released even if the event is cleared before it runs again
Release(tasks, waiting, released) ==
    [c \in CpuCores |-> IF tasks[c].pc = waiting THEN [tasks[c] EXCEPT !.pc = released]
                        ELSE tasks[c]]

TaskRaise(s, c, exc) ==
    [s EXCEPT !.task[c].pc = "raised", !.task[c].result = [exception |-> exc]]

\* harness: count the service of core c's top-of-stack item in this pass
CountService(s, c) ==
    LET top == Len(core_workloads_copy[c])
    IN  IF top = 0 \/ sim.pass \notin {"write", "read"} THEN s
        ELSE [s EXCEPT !.serviced[sim.pass][c][top] = @ + 1]

\* mutation of cleanup: the conditions are cleared by the first leaver
cleanup_ClearEarly(s) ==
    LET s1 == [s EXCEPT !.cores_arrived = @ - 1]
    IN  [s1 EXCEPT !.all_arrived = FALSE, !.arbitation_done = FALSE]

\* axi_handler_arbiter, the "clean up" region
cleanup(s) ==
    LET s1 == [s EXCEPT !.cores_arrived = @ - 1]
    IN  IF s1.cores_arrived = 0
        THEN [s1 EXCEPT !.all_arrived = FALSE, !.arbitation_done = FALSE]
        ELSE s1

\* mutation of after_done: every requester forwards its own request
after_done_ForwardAny(s, c) ==
    LET packet == s.cores_axi_requsts[c]
    IN  IF packet = None THEN TaskRaise(s, c, "TypeError")
        ELSE LET m == MemoryController_axi_handler(s.sram, packet)
                 s1 == CountService([s EXCEPT !.sram = m.sram,
                                              !.cores_axi_requsts[c] = m.request,
                                              !.forwarded = @ \cup {c}], c)
                 s2 == cleanup(s1)
             IN  [s2 EXCEPT !.task[c].pc = "returned", !.task[c].result = m.request]

\* axi_handler_arbiter from the return of arbitation_done.wait() to the end
after_done(s, c) ==
    LET packet == s.cores_axi_requsts[c]
    IN  IF packet = None THEN TaskRaise(s, c, "TypeError")
        ELSE IF c = s.request_id
        THEN LET m == MemoryController_axi_handler(s.sram, packet)
                 s1 == CountService([s EXCEPT !.sram = m.sram,
                                              !.cores_axi_requsts[c] = m.request,
                                              !.forwarded = @ \cup {c}], c)
                 s2 == cleanup(s1)
             IN  [s2 EXCEPT !.task[c].pc = "returned", !.task[c].result = m.request]
        ELSE LET s2 == cleanup(s)
             IN  [s2 EXCEPT !.task[c].pc = "returned", !.task[c].result = packet]

\* await arbitation_done.wait()
wait_done(s, c) ==
    IF s.arbitation_done THEN after_done(s, c)
    ELSE [s EXCEPT !.task[c].pc = "wait_done"]

\* the region in which core 0 runs the arbitration and publishes request_id
decide(s) ==
    IF \E k \in CpuCores : s.cores_axi_requsts[k] = None
    THEN TaskRaise(s, 0, "ValueError")
    ELSE LET requests_in == [i \in 1..NumCores |->
                                IF s.cores_axi_requsts[i - 1].mem_valid THEN 1 ELSE 0]
             r == arbitrate("axi", s.a, requests_in)
         IN  IF r.timeout THEN TaskRaise([s EXCEPT !.a = r.a], 0, "Exception")
             ELSE IF \A i \in 1..NumCores : r.grant[i] # 1
             THEN TaskRaise([s EXCEPT !.a = r.a], 0, "ValueError")
             ELSE [s EXCEPT !.a = r.a,
                            !.request_id = GrantIndex(r.grant),
                            !.arbitation_done = TRUE,
                            !.task = Release(s.task, "wait_done", "run_done")]

\* axi_handler_arbiter from the return of all_arrived.wait()
after_all(s, c) ==
    IF c = 0
    THEN LET s1 == decide(s)
         IN  IF s1.task[c].pc = "raised" THEN s1 ELSE wait_done(s1, c)
    ELSE wait_done(s, c)

\* axi_handler_arbiter from its entry: arrival, then await all_arrived.wait()
enter(s, c) ==
    LET s1 == [s EXCEPT !.cores_arrived = @ + 1,
                        !.cores_axi_requsts[c] = s.task[c].request]
        s2 == IF s1.cores_arrived = NumCores
              THEN [s1 EXCEPT !.all_arrived = TRUE,
                              !.task = Release(s1.task, "wait_all", "run_all")]
              ELSE s1
    IN  IF s2.all_arrived THEN after_all(s2, c)
        ELSE [s2 EXCEPT !.task[c].pc = "wait_all"]

Cpu ==
    [sram |-> sram, cores_arrived |-> cores_arrived,
     cores_axi_requsts |-> cores_axi_requsts, all_arrived |-> all_arrived,
     arbitation_done |-> arbitation_done, request_id |-> request_id,
     a |-> arb["axi"], task |-> task, serviced |-> serviced, forwarded |-> forwarded]

SetCpu(s) ==
    /\ sram' = s.sram
    /\ cores_arrived' = s.cores_arrived
    /\ cores_axi_requsts' = s.cores_axi_requsts
    /\ all_arrived' = s.all_arrived
    /\ arbitation_done' = s.arbitation_done
    /\ request_id' = s.request_id
    /\ arb' = [arb EXCEPT !["axi"] = s.a]
    /\ task' = s.task
    /\ serviced' = s.serviced
    /\ forwarded' = s.forwarded
    /\ UNCHANGED <<weights, core_workloads, core_workloads_copy, sim>>
    /\ UNCHANGED outsideCPU

\* a created task runs for the first time
TaskStart(c) ==
    /\ task[c].pc = "start"
    /\ \E r \in {enter(Cpu, c)} : SetCpu(r)

\* a task released from all_arrived.wait() runs again
TaskAfterAllArrived(c) ==
    /\ task[c].pc = "run_all"
    /\ \E r \in {after_all(Cpu, c)} : SetCpu(r)

\* a task released from arbitation_done.wait() runs again
TaskAfterDone(c) ==
    /\ task[c].pc = "run_done"
    /\ \E r \in {after_done(Cpu, c)} : SetCpu(r)

any(stacks) == \E c \in CpuCores : stacks[c] # <<>>

\* core_worker_write / core_worker_read: the request a core submits
core_worker(pass, stack) ==
    IF Len(stack) > 0
    THEN LET core_testcase == stack[Len(stack)]
         IN  IF pass = "write"
             THEN Core_write(core_testcase.data_addr, core_testcase.data, core_testcase.wstb)
             ELSE Core_read(core_testcase.data_addr)
    ELSE IF pass = "write" THEN Core_write_nothing ELSE Core_read_nothing

\* start_sim, top of a loop body: one task per core is created
BeginRound ==
    /\ sim.pass \in {"write", "read"} /\ ~sim.gathering
    /\ any(core_workloads_copy)
    /\ task' = [c \in CpuCores |->
                   [pc |-> "start",
                    request |-> core_worker(sim.pass, core_workloads_copy[c]),
                    result |-> None]]
    /\ sim' = [sim EXCEPT !.gathering = TRUE]
    /\ forwarded' = {}
    /\ UNCHANGED <<sram, cores_arrived, cores_axi_requsts, all_arrived, arbitation_done,
                   request_id, core_workloads, core_workloads_copy, serviced,
                   weights, arb>>
    /\ UNCHANGED outsideCPU

\* mutation of pop_serviced: every core's stack is popped
pop_serviced_Always(stacks, results) ==
    [c \in CpuCores |->
        IF stacks[c] # <<>> THEN SubSeq(stacks[c], 1, Len(stacks[c]) - 1) ELSE stacks[c]]

\* the loop over cur_cycle_results: pop the stack of each core whose result
\* has mem_ready set
pop_serviced(stacks, results) ==
    [c \in CpuCores |->
        IF results[c].mem_ready THEN SubSeq(stacks[c], 1, Len(stacks[c]) - 1) ELSE stacks[c]]

\* start_sim, return of asyncio.gather: all tasks returned, or one raised
Gather ==
    /\ sim.gathering
    /\ \/ \A c \in CpuCores : task[c].pc = "returned"
       \/ \E c \in CpuCores : task[c].pc = "raised"
    /\ IF \E c \in CpuCores : task[c].pc = "raised"
       THEN /\ sim' = [pass |-> "raised", gathering |-> FALSE]
            /\ UNCHANGED <<core_workloads_copy, task>>
       ELSE /\ \A c \in CpuCores : task[c].result.mem_ready => core_workloads_copy[c] # <<>>
            /\ core_workloads_copy' =
                   pop_serviced(core_workloads_copy, [c \in CpuCores |-> task[c].result])
            /\ task' = [c \in CpuCores |-> [task[c] EXCEPT !.pc = "done"]]
            /\ sim' = [sim EXCEPT !.gathering = FALSE]
    /\ UNCHANGED <<sram, cores_arrived, cores_axi_requsts, all_arrived, arbitation_done,
                   request_id, core_workloads, serviced, forwarded, weights, arb>>
    /\ UNCHANGED outsideCPU

\* start_sim, a while condition that is false: the write pass hands over to
\* the read pass on a fresh copy of the stacks, the read pass ends the run
EndPass ==
    /\ sim.pass \in {"write", "read"} /\ ~sim.gathering
    /\ ~any(core_workloads_copy)
    /\ IF sim.pass = "write"
       THEN /\ core_workloads_copy' = core_workloads
            /\ sim' = [sim EXCEPT !.pass = "read"]
       ELSE /\ sim' = [sim EXCEPT !.pass = "done"]
            /\ UNCHANGED core_workloads_copy
    /\ UNCHANGED <<sram, cores_arrived, cores_axi_requsts, all_arrived, arbitation_done,
                   request_id, task, core_workloads, serviced, forwarded, weights, arb>>
    /\ UNCHANGED outsideCPU

\* CPU.__init__, the workload partition: test case i+k goes to core k
Partition(test_cases) ==
    [k \in CpuCores |->
        [j \in 1..(Len(test_cases) \div NumCores) |-> test_cases[(j - 1) * NumCores + k + 1]]]

\* CPU(2, test_cases) followed by the first lines of start_sim
InitCPU ==
    /\ \E n \in 0..MaxItemsPerCore :
          \E test_cases \in [1..(n * NumCores) -> CaseSet] :
              core_workloads = Partition(test_cases)
    /\ core_workloads_copy = core_workloads
    /\ sram = <<>>
    /\ weights = <<1, 1>>
    /\ arb = [v \in {"axi"} |-> [current_index |-> 0, remaining_credits |-> weights[1]]]
    /\ cores_arrived = 0
    /\ cores_axi_requsts = [c \in CpuCores |-> None]
    /\ all_arrived = FALSE
    /\ arbitation_done = FALSE
    /\ request_id = -1
    /\ task = [c \in CpuCores |-> [pc |-> "none", request |-> None, result |-> None]]
    /\ sim = [pass |-> "write", gathering |-> FALSE]
    /\ serviced = [p \in {"write", "read"} |->
                      [c \in CpuCores |-> [i \in 1..Len(core_workloads[c]) |-> 0]]]
    /\ forwarded = {}
    /\ wrr_out = <<>> /\ wrr_req = <<>> /\ win = <<>>
    /\ IdleMESI /\ IdleMSI /\ IdleBidir /\ IdleLater("none")

CpuTaskStart == \E c \in CpuCores : TaskStart(c)
CpuTaskAfterAllArrived == \E c \in CpuCores : TaskAfterAllArrived(c)
CpuTaskAfterDone == \E c \in CpuCores : TaskAfterDone(c)

NextCPU ==
    \/ BeginRound
    \/ CpuTaskStart
    \/ CpuTaskAfterAllArrived
    \/ CpuTaskAfterDone
    \/ Gather
    \/ EndPass

SpecCPU == InitCPU /\ [][NextCPU]_vars

\* ---- driver claims ------------------------------------------------------
BarrierAtRest == cores_arrived = 0 /\ ~all_arrived /\ ~arbitation_done

\* the core whose coroutine runs in this step
Stepping(c) == task'[c].pc # task[c].pc

\* C8: all_arrived and arbitation_done are cleared only by the step that
\* brings cores_arrived back to zero, taken by the last requester after every
\* other requester of the round has observed the decision and returned; when
\* the last requester has returned the barrier is back in its initial state.
C8_ArbiterTeardown ==
    [][ /\ ((all_arrived /\ ~all_arrived') \/ (arbitation_done /\ ~arbitation_done'))
           => /\ cores_arrived = 1 /\ cores_arrived' = 0
              /\ ~all_arrived' /\ ~arbitation_done'
              /\ \E c \in CpuCores :
                    /\ Stepping(c)
                    /\ arbitation_done \/ c = 0
                    /\ \A k \in CpuCores \ {c} : task[k].pc = "returned"
              /\ \A c \in CpuCores : task'[c].pc = "returned"
        /\ (\A c \in CpuCores : task'[c].pc = "returned")
           => (cores_arrived' = 0 /\ ~all_arrived' /\ ~arbitation_done')
        /\ (sim.gathering /\ ~sim'.gathering /\ sim'.pass # "raised")
           => (cores_arrived' = 0 /\ ~all_arrived' /\ ~arbitation_done')
      ]_vars

\* C8 witness: a second round has just been torn down by a requester other
\* than core 0, after core 0 left first.
C8_Witness ==
    /\ sim.gathering
    /\ \A c \in CpuCores : task[c].pc = "returned"
    /\ BarrierAtRest
    /\ request_id = 1
    /\ \E c \in CpuCores : Len(core_workloads_copy[c]) < Len(core_workloads[c])

WorkSlots == {<<p, c, i>> \in {"write", "read"} \X CpuCores \X (1..(MaxItemsPerCore + 1)) :
                 i <= Len(core_workloads[c])}

GatherStep == sim.gathering /\ ~sim'.gathering /\ sim'.pass # "raised"

BeginStep == ~sim.gathering /\ sim'.gathering

\* C9: in both passes a work item leaves a stack only in a round whose
\* result for that core has mem_ready set; mem_ready is set only for the one
\* core whose request was forwarded to memory; a core that lost submits the
\* same item in the next round; every item is served exactly once per pass.
C9_DriverPopOnService ==
    [][ /\ \A c \in CpuCores :
              Len(core_workloads_copy'[c]) < Len(core_workloads_copy[c])
              => /\ GatherStep
                 /\ task[c].result.mem_ready
                 /\ Len(core_workloads_copy'[c]) = Len(core_workloads_copy[c]) - 1
        /\ GatherStep
           => /\ \A c \in CpuCores :
                    task[c].result.mem_ready <=> (forwarded = {c} /\ c = request_id)
              /\ Cardinality({c \in CpuCores : task[c].result.mem_ready}) = 1
        /\ BeginStep
           => \A c \in CpuCores :
                 (task[c].pc = "done" /\ task[c].request.mem_valid
                      /\ ~task[c].result.mem_ready)
                 => task'[c].request = task[c].request
        /\ \A w \in WorkSlots : serviced'[w[1]][w[2]][w[3]] <= 1
        /\ sim'.pass = "read" => \A w \in WorkSlots : w[1] = "write" => serviced'[w[1]][w[2]][w[3]] = 1
        /\ sim'.pass = "done" => \A w \in WorkSlots : serviced'[w[1]][w[2]][w[3]] = 1
      ]_vars

\* C9 witness: in the read pass, after a complete write pass, one core was
\* served and the other lost the round and keeps its item.
C9_Witness ==
    /\ sim.pass = "read" /\ sim.gathering
    /\ \A c \in CpuCores : task[c].pc = "returned" /\ task[c].request.mem_valid
    /\ \E c \in CpuCores : task[c].result.mem_ready
    /\ \E c \in CpuCores : ~task[c].result.mem_ready
    /\ \A c \in CpuCores : Len(core_workloads[c]) = 2
    /\ \E c \in CpuCores : Len(core_workloads_copy[c]) = 1

\* the step in which the arbitration decision of a round is published
DecisionStep == ~arbitation_done /\ arbitation_done'

\* the request vector of the round in progress, as handed to arbitrate
SubmittedRequests == [i \in 1..NumCores |-> IF task[i - 1].request.mem_valid THEN 1 ELSE 0]

\* C28: in a round of the driver the arbiter state changes and a decision is
\* published in one step only, taken by requester 0 before any requester has
\* returned, and the published index is the grant of arbitrate on the
\* submitted requests; the memory handler is called in one step only, by the
\* granted requester with the request it submitted; when the round is
\* gathered every other requester holds the record it submitted, mem_ready
\* not set.
C28_OneDispatchPerRound ==
    [][ /\ BeginStep => BarrierAtRest
        /\ (DecisionStep \/ arb' # arb)
           => /\ DecisionStep
              /\ Stepping(0) /\ task[0].pc \in {"start", "run_all"}
              /\ \A c \in CpuCores : task[c].pc \notin {"none", "returned", "done"}
              /\ LET r == arbitrate("axi", arb["axi"], SubmittedRequests)
                 IN  /\ arb'["axi"] = r.a
                     /\ request_id' = GrantIndex(r.grant)
                     /\ r.grant = [i \in 1..NumCores |-> IF i = request_id' + 1 THEN 1 ELSE 0]
              /\ task[request_id'].request.mem_valid
        /\ ((forwarded' # forwarded \/ sram' # sram) /\ ~BeginStep)
           => /\ forwarded = {} /\ forwarded' = {request_id'}
              /\ Stepping(request_id') /\ task'[request_id'].pc = "returned"
              /\ LET m == MemoryController_axi_handler(sram, task[request_id'].request)
                 IN  /\ sram' = m.sram
                     /\ task'[request_id'].result = m.request
                     /\ m.request.mem_ready
        /\ GatherStep
           => /\ forwarded = {request_id}
              /\ \A c \in CpuCores \ {request_id} :
                    /\ task[c].result = task[c].request
                    /\ ~task[c].result.mem_ready
      ]_vars

\* C28 witness: a write round has ended in which both requests were valid;
\* core 1 was granted and its write is in memory, core 0 holds its own
\* request, not ready.
C28_Witness ==
    /\ sim.pass = "write" /\ sim.gathering
    /\ \A c \in CpuCores : task[c].pc = "returned"
    /\ request_id = 1 /\ forwarded = {1}
    /\ task[0].request.mem_valid /\ task[0].result = task[0].request
    /\ ~task[0].result.mem_ready /\ task[1].result.mem_ready
    /\ task[1].request.mem_wstrb # 0
    /\ sram # <<>>

\* the work items of the runs checked for termination: a full-word write and
\* a write with no strobe bit, at different addresses
TerminationCases == {test_case(0, 5, 15), test_case(1, 9, 0)}

InitCPUFair ==
    /\ InitCPU
    /\ \A c \in CpuCores : \A i \in 1..Len(core_workloads[c]) :
          core_workloads[c][i] \in TerminationCases

\* the event loop runs a task that is ready, and start_sim goes on when its
\* gather has completed
SpecCPUFair == InitCPUFair /\ [][NextCPU]_vars /\ WF_vars(NextCPU)

\* number of work items left on the first n stacks
RECURSIVE Remaining(_, _)
Remaining(stacks, n) == IF n = 0 THEN 0 ELSE Len(stacks[n - 1]) + Remaining(stacks, n - 1)

\* every task of the round is suspended in a wait or has finished
NoTaskReady == \A c \in CpuCores : task[c].pc \notin {"start", "run_all", "run_done"}

\* C29: every gathered round takes exactly one item off the stacks and the
\* stacks change in no other way within a pass, so a pass over K items is K
\* rounds; the read pass starts from the full workload when the write pass
\* has emptied its copy; no task and no pass raises, a round never comes to
\* rest with a task still waiting at the barrier, a result with mem_ready
\* never meets an empty stack, and the run reaches its end.
C29_DriverTermination ==
    /\ [][ /\ GatherStep
              => Remaining(core_workloads_copy', NumCores)
                     = Remaining(core_workloads_copy, NumCores) - 1
           /\ (core_workloads_copy' # core_workloads_copy /\ ~GatherStep)
              => /\ sim.pass = "write" /\ sim'.pass = "read"
                 /\ Remaining(core_workloads_copy, NumCores) = 0
                 /\ core_workloads_copy' = core_workloads
           /\ sim'.pass = "done" => (sim.pass = "read" /\ ~any(core_workloads_copy))
           /\ sim'.pass # "raised" /\ \A c \in CpuCores : task'[c].pc # "raised"
           /\ (sim'.gathering /\ NoTaskReady')
              => /\ \A c \in CpuCores : task'[c].pc = "returned"
                 /\ \A c \in CpuCores :
                       task'[c].result.mem_ready => core_workloads_copy'[c] # <<>>
         ]_vars
    /\ <>(sim.pass = "done")

\* C29 witness: a run over four test cases has ended, both passes having
\* served both items of both cores.
C29_Witness ==
    /\ sim.pass = "done"
    /\ \A c \in CpuCores : Len(core_workloads[c]) = 2 /\ core_workloads_copy[c] = <<>>
    /\ \A w \in WorkSlots : serviced[w[1]][w[2]][w[3]] = 1
    /\ BarrierAtRest

\* ------------------------------------------------------------------------
\* The arbiter called directly: every requester loops over
\* axi_handler_arbiter on its own, with valid or do-nothing requests, and
\* nothing but the arbiter synchronises the callers.
\* ------------------------------------------------------------------------
MaxCalls == 2                \* calls each requester makes

\* the requests a caller submits: Core.read(1), Core.read_nothing()
CallRequests == {Core_read(1), Core_read_nothing}

\* a requester calls axi_handler_arbiter (again, once its last call returned)
AxiCall(c, request) ==
    /\ sim.pass = "free"
    /\ task[c].pc \in {"none", "returned"}
    /\ sim.calls[c] < MaxCalls
    /\ task' = [task EXCEPT ![c] = [pc |-> "start", request |-> request, result |-> None]]
    /\ sim' = [sim EXCEPT !.calls[c] = @ + 1]
    /\ UNCHANGED <<sram, cores_arrived, cores_axi_requsts, all_arrived, arbitation_done,
                   request_id, core_workloads, core_workloads_copy, serviced, forwarded,
                   weights, arb>>
    /\ UNCHANGED outsideCPU

\* WeightedRoundRobinArbiter(2, [1, 1], memory.axi_handler), no call made yet
InitArb ==
    /\ core_workloads = [c \in CpuCores |-> <<>>]
    /\ core_workloads_copy = core_workloads
    /\ sram = <<>>
    /\ weights = <<1, 1>>
    /\ arb = [v \in {"axi"} |-> [current_index |-> 0, remaining_credits |-> weights[1]]]
    /\ cores_arrived = 0
    /\ cores_axi_requsts = [c \in CpuCores |-> None]
    /\ all_arrived = FALSE
    /\ arbitation_done = FALSE
    /\ request_id = -1
    /\ task = [c \in CpuCores |-> [pc |-> "none", request |-> None, result |-> None]]
    /\ sim = [pass |-> "free", gathering |-> FALSE, calls |-> [c \in CpuCores |-> 0]]
    /\ serviced = <<>>
    /\ forwarded = {}
    /\ wrr_out = <<>> /\ wrr_req = <<>> /\ win = <<>>
    /\ IdleMESI /\ IdleMSI /\ IdleBidir /\ IdleLater("none")

ArbCall == \E c \in CpuCores, request \in CallRequests : AxiCall(c, request)

NextArb ==
    \/ ArbCall
    \/ CpuTaskStart
    \/ CpuTaskAfterAllArrived
    \/ CpuTaskAfterDone

SpecArb == InitArb /\ [][NextArb]_vars

\* requester c gets past all_arrived.wait() in this step
PassesBarrier(c) ==
    /\ task[c].pc \in {"start", "run_all"}
    /\ task'[c].pc \notin {"start", "wait_all", "run_all"}

\* requester c gets past arbitation_done.wait() in this step and acts on
\* request_id
ActsOnDecision(c) ==
    /\ task[c].pc \in {"start", "run_all", "run_done"}
    /\ task'[c].pc = "returned"

\* C26: a requester gets past the arrival barrier of its k-th call only when
\* every requester has submitted its k-th request (so the decision requester
\* 0 computes there uses requests of one round only), and a requester acts
\* on a decision only if requester 0 took it in the call of the same number.
C26_RoundIsolation ==
    [][ \A c \in CpuCores :
          /\ PassesBarrier(c) =>
                \A k \in CpuCores :
                    /\ sim.calls[k] = sim.calls[c]
                    /\ k # c => task[k].pc \notin {"none", "start"}
          /\ (ActsOnDecision(c) /\ c # 0) =>
                (sim.calls[0] = sim.calls[c] /\ task[0].pc = "returned")
      ]_vars

\* all requesters are in a call of the same number, each with a do-nothing
\* request
AllInvalidRound ==
    /\ \A c \in CpuCores : task[c].request # None /\ sim.calls[c] = sim.calls[0]
    /\ \A c \in CpuCores : ~task[c].request.mem_valid

\* C27: in a round whose requests are all do-nothing requests no caller
\* raises, nothing is forwarded to the memory handler, a caller that
\* returned got its own request back, and once all have returned the barrier
\* is torn down.
C27_EmptyRoundCompletes ==
    (sim.pass = "free" /\ sim.calls[0] = 1 /\ AllInvalidRound) =>
        /\ \A c \in CpuCores : task[c].pc # "raised"
        /\ forwarded = {}
        /\ \A c \in CpuCores : task[c].pc = "returned" => task[c].result = task[c].request
        /\ (\A c \in CpuCores : task[c].pc = "returned") => BarrierAtRest

\* ========================================================================
\* MSI directory-based coherence system, generation 2, run in lockstep with
\* generation 1 on the same operations
\* ========================================================================
SnoopPorts == {"handle_request", "_handle_snoop"}

axi_and_coherence_request(mem_valid, mem_instr, mem_ready, mem_addr, mem_wdata_or_msi_payload, mem_wstrb, mem_rdata, coherence_cmd, core_id) ==
    [mem_valid |-> mem_valid, mem_instr |-> mem_instr, mem_ready |-> mem_ready,
     mem_addr |-> mem_addr, mem_wdata_or_msi_payload |-> mem_wdata_or_msi_payload,
     mem_wstrb |-> mem_wstrb, mem_rdata |-> mem_rdata,
     coherence_cmd |-> coherence_cmd, core_id |-> core_id]

\* util.axi_and_cohrenece_cmd_to_axi
axi_and_cohrenece_cmd_to_axi(to_cast) ==
    axi_request(to_cast.mem_valid, to_cast.mem_instr, to_cast.mem_ready,
                to_cast.mem_addr, to_cast.mem_wdata_or_msi_payload,
                to_cast.mem_wstrb, to_cast.mem_rdata)

\* an exception leaves the operation: what was written so far stays
Raise2(g, exc) == [g EXCEPT !.exc = exc]

\* await self.memory_axi_handler(request)
memory_axi_handler(g, request) ==
    LET Reply(r) == [g |-> [g EXCEPT !.sram = r.sram], resp |-> r.request]
    IN  Reply(MemoryController_axi_handler(g.sram, request))

\* the read and write records the directory builds for memory
read_request(addr) == axi_request(TRUE, FALSE, FALSE, addr, 0, 0, 0)
write_request(addr, data) == axi_request(TRUE, FALSE, FALSE, addr, data, 15, 0)

\* cache_v2.CacheController._handle_snoop: the flushed data goes into the
\* payload field; mem_ready and mem_rdata are left as they came
handle_snoop_v2(g, c, request) ==
    LET line == g.lines[c][request.mem_addr]
        cmd == request.coherence_cmd
        event == IF cmd = SNOOP_BUS_RD THEN Snoop_BUS_RD
                 ELSE IF cmd = SNOOP_BUS_RDX THEN Snoop_BUS_RDX
                 ELSE Snoop_BUS_UPGR
        tr == on_snoop_event(line.state, event)
    IN  IF cmd \notin {SNOOP_BUS_RD, SNOOP_BUS_RDX, SNOOP_BUS_UPGR}
        THEN [g |-> Raise2(g, "ValueError"), resp |-> request]
        ELSE [g |-> [g EXCEPT !.lines[c][request.mem_addr].state = tr.next_state],
              resp |-> [request EXCEPT !.mem_wdata_or_msi_payload =
                                           IF tr.flush THEN line.data ELSE 0]]

\* directory_v2.DirectoryController._send_snoop: port(req) is called without
\* await. With the coroutine handle_request registered the call returns a
\* coroutine object and resp.mem_ready raises AttributeError; with
\* _handle_snoop registered the snoop runs and comes back unacknowledged.
send_snoop_v2(g, target_core, addr, snoop_cmd, requester) ==
    LET req == axi_and_coherence_request(TRUE, FALSE, FALSE, addr, 0, 15, 0,
                                         snoop_cmd, requester)
        Answer(r) ==
            IF r.g.exc # "none" THEN [g |-> r.g, data |-> 0]
            ELSE IF ~r.resp.mem_ready THEN [g |-> Raise2(r.g, "RuntimeError"), data |-> 0]
            ELSE [g |-> r.g, data |-> r.resp.mem_rdata]
    IN  IF g.port = "handle_request"
        THEN [g |-> Raise2(g, "AttributeError"), data |-> 0]
        ELSE Answer(handle_snoop_v2(g, target_core, req))

\* directory_v2.DirectoryController._bus_rd. In the Invalid and Shared
\* branches the cache's own record (strobe 0xF, payload as data) is handed to
\* memory. In the Modified branch the arguments of _send_snoop read
\* axi_and_coherence_request.mem_addr, an attribute of the class, which
\* raises AttributeError before the snoop is sent.
bus_rd_v2(g, request) ==
    LET addr == request.mem_addr
        entry == g.entries[addr]
        own == owner(entry)
    IN  IF entry.state = INVALID
        THEN memory_axi_handler(
                 [g EXCEPT !.entries[addr] =
                     [state |-> SHARED, sharers |-> Pow2(request.core_id)]],
                 axi_and_cohrenece_cmd_to_axi(request))
        ELSE IF entry.state = SHARED
        THEN memory_axi_handler(
                 [g EXCEPT !.entries[addr].sharers = SetBit(@, request.core_id)],
                 axi_and_cohrenece_cmd_to_axi(request))
        ELSE IF own # NoOwner /\ own # request.core_id
        THEN [g |-> Raise2(g, "AttributeError"),
              resp |-> axi_and_cohrenece_cmd_to_axi(request)]
        ELSE memory_axi_handler(
                 [g EXCEPT !.entries[addr].state = SHARED,
                           !.entries[addr].sharers = SetBit(@, request.core_id)],
                 read_request(addr))

\* the invalidation loop of _bus_rdx / _bus_upgr: for c in range(num_cores)
RECURSIVE InvalidateSharers_v2(_, _, _, _, _)
InvalidateSharers_v2(g, c, requester, addr, snoop_cmd) ==
    IF c = num_cores \/ g.exc # "none" THEN g
    ELSE InvalidateSharers_v2(
             IF c # requester /\ Bit(g.entries[addr].sharers, c) = 1
             THEN send_snoop_v2(g, c, addr, snoop_cmd, requester).g
             ELSE g,
             c + 1, requester, addr, snoop_cmd)

\* directory_v2.DirectoryController._bus_rdx: memory is read first
bus_rdx_v2(g, request) ==
    LET addr == request.mem_addr
        entry == g.entries[addr]
        own == owner(entry)
        data == memory_axi_handler(g, read_request(addr)).resp
        grant(x) == [x EXCEPT !.entries[addr] =
                        [state |-> MODIFIED, sharers |-> Pow2(request.core_id)]]
        Invalidated(r) == [g |-> IF r.exc # "none" THEN r ELSE grant(r), resp |-> data]
        Flushed(sn) ==
            IF sn.g.exc # "none" THEN [g |-> sn.g, resp |-> data]
            ELSE [g |-> grant(memory_axi_handler(sn.g, write_request(addr, sn.data)).g),
                  resp |-> data]
    IN  IF entry.state = INVALID THEN [g |-> grant(g), resp |-> data]
        ELSE IF entry.state = SHARED
        THEN Invalidated(InvalidateSharers_v2(g, 0, request.core_id, addr, SNOOP_BUS_RDX))
        ELSE IF own # NoOwner /\ own # request.core_id
        THEN Flushed(send_snoop_v2(g, own, addr, SNOOP_BUS_RDX, request.core_id))
        ELSE [g |-> grant(g), resp |-> data]

\* directory_v2.DirectoryController._bus_upgr
bus_upgr_v2(g, request) ==
    LET addr == request.mem_addr
        Upgraded(r) ==
            IF r.exc # "none" THEN [g |-> r, resp |-> axi_and_cohrenece_cmd_to_axi(request)]
            ELSE memory_axi_handler(
                     [r EXCEPT !.entries[addr] =
                         [state |-> MODIFIED, sharers |-> Pow2(request.core_id)]],
                     read_request(addr))
    IN  IF g.entries[addr].state = SHARED
        THEN Upgraded(InvalidateSharers_v2(g, 0, request.core_id, addr, SNOOP_BUS_UPGR))
        ELSE bus_rdx_v2(g, request)

\* directory_v2.DirectoryController._evict_clean
evict_clean_v2(g, request) ==
    LET addr == request.mem_addr
        sh == ClearBit(g.entries[addr].sharers, request.core_id)
        e1 == [g.entries[addr] EXCEPT !.sharers = sh]
    IN  [g |-> [g EXCEPT !.entries[addr] =
                   IF sh = 0 THEN [e1 EXCEPT !.state = INVALID]
                   ELSE IF e1.state = MODIFIED /\ owner(e1) = NoOwner
                        THEN [e1 EXCEPT !.state = SHARED]
                   ELSE e1],
         resp |-> axi_request(TRUE, FALSE, TRUE, addr, 0, 0, 0)]

\* directory_v2.DirectoryController._evict_dirty
evict_dirty_v2(g, request) ==
    LET Written(w) == [g |-> evict_clean_v2(w.g, request).g, resp |-> w.resp]
    IN  Written(memory_axi_handler(
                    g, write_request(request.mem_addr, request.mem_wdata_or_msi_payload)))

\* directory_v2.DirectoryController._handle_coherence
handle_coherence_v2(g, request) ==
    LET cmd == request.coherence_cmd
    IN  IF cmd = BUS_RD THEN bus_rd_v2(g, request)
        ELSE IF cmd = BUS_RDX THEN bus_rdx_v2(g, request)
        ELSE IF cmd = BUS_UPGR THEN bus_upgr_v2(g, request)
        ELSE IF cmd = EVICT_CLEAN THEN evict_clean_v2(g, request)
        ELSE IF cmd = EVICT_DIRTY THEN evict_dirty_v2(g, request)
        ELSE [g |-> Raise2(g, "ValueError"), resp |-> axi_and_cohrenece_cmd_to_axi(request)]

\* directory_v2.DirectoryController.axi_handler
directory_axi_handler_v2(g, request) ==
    IF ~request.mem_valid
    THEN [g |-> g, resp |-> axi_and_cohrenece_cmd_to_axi([request EXCEPT !.mem_ready = FALSE])]
    ELSE handle_coherence_v2(g, request)

\* cache_v2.CacheController._send_dir_cmd
send_dir_cmd_v2(g, c, cmd, addr, payload) ==
    LET req == axi_and_coherence_request(TRUE, FALSE, FALSE, addr, payload, 15, 0, cmd, c)
        Answer(r) ==
            IF r.g.exc # "none" THEN r
            ELSE IF ~r.resp.mem_ready THEN [g |-> Raise2(r.g, "RuntimeError"), resp |-> r.resp]
            ELSE r
    IN  Answer(directory_axi_handler_v2(g, req))

\* cache_v2.CacheController._handle_cpu_read
handle_cpu_read_v2(g, c, request) ==
    LET addr == request.mem_addr
        line == g.lines[c][addr]
        tr == on_processor_event(line.state, PR_RD)
        Filled(d) ==
            IF d.g.exc # "none" THEN [g |-> d.g, resp |-> request]
            ELSE [g |-> [d.g EXCEPT !.lines[c][addr] =
                            [state |-> tr.next_state, data |-> d.resp.mem_rdata]],
                  resp |-> [request EXCEPT !.mem_rdata = d.resp.mem_rdata,
                                           !.mem_ready = TRUE]]
    IN  IF tr.issue_cmd # NoCmd
        THEN Filled(send_dir_cmd_v2(g, c, tr.issue_cmd, addr, 0))
        ELSE [g |-> [g EXCEPT !.lines[c][addr].state = tr.next_state],
              resp |-> [request EXCEPT !.mem_rdata = line.data, !.mem_ready = TRUE]]

\* cache_v2.CacheController._handle_cpu_write
handle_cpu_write_v2(g, c, request) ==
    LET addr == request.mem_addr
        tr == on_processor_event(g.lines[c][addr].state, PR_WR)
        Done(r) ==
            IF r.exc # "none" THEN [g |-> r, resp |-> request]
            ELSE [g |-> [r EXCEPT !.lines[c][addr] =
                            [state |-> tr.next_state,
                             data |-> apply_wstrb(r.lines[c][addr].data,
                                                  request.mem_wdata, request.mem_wstrb)]],
                  resp |-> [request EXCEPT !.mem_ready = TRUE]]
    IN  Done(IF tr.issue_cmd # NoCmd
             THEN send_dir_cmd_v2(g, c, tr.issue_cmd, addr, 0).g
             ELSE g)

\* cache_v2.CacheController.evict: _send_dir_cmd is a coroutine function and
\* is called without await, so the command is never sent; only the line
\* changes (an absent line and an Invalid line end the same)
evict_v2(g, c, addr) == [g EXCEPT !.lines[c][addr].state = INVALID]

\* cache_v2.CacheController.handle_request with a plain axi_request
handle_request_v2(g, c, request) ==
    IF ~request.mem_valid THEN [g |-> g, resp |-> [request EXCEPT !.mem_ready = FALSE]]
    ELSE IF request.mem_wstrb = 0 THEN handle_cpu_read_v2(g, c, request)
    ELSE handle_cpu_write_v2(g, c, request)

Gen2 == [lines |-> v2_lines, entries |-> v2_entries, sram |-> v2_sram,
         port |-> snoop_port, exc |-> "none"]

SetGen2(g) ==
    /\ v2_lines' = g.lines
    /\ v2_entries' = g.entries
    /\ v2_sram' = g.sram

outsideMSI2 == <<varsMESI, varsWRR, varsBidir, varsCPU, varsUni, varsStrobe, varsMem, varsPool, varsTable, varsCtor, varsPack, varsTurns, varsSer>>

\* the same CPU read or write on both generations
Gen2CpuRequest(c, addr, wdata, wstrb) ==
    /\ v2_op.exc = "none"
    /\ CpuRequestStep(c, addr, wdata, wstrb)
    /\ \E r \in {handle_request_v2(Gen2, c, axi_request(TRUE, FALSE, FALSE, addr,
                                                        wdata, wstrb, 0))} :
           /\ SetGen2(r.g)
           /\ v2_op' = [kind |-> IF wstrb = 0 THEN "read" ELSE "write",
                        cache |-> c, addr |-> addr, value |-> r.resp.mem_rdata,
                        exc |-> r.g.exc]
    /\ UNCHANGED snoop_port
    /\ UNCHANGED outsideMSI2

\* the same eviction on both generations
Gen2Evict(c, addr) ==
    /\ v2_op.exc = "none"
    /\ EvictStep(c, addr)
    /\ \E r \in {evict_v2(Gen2, c, addr)} :
           /\ SetGen2(r)
           /\ v2_op' = [kind |-> "evict", cache |-> c, addr |-> addr, value |-> 0,
                        exc |-> r.exc]
    /\ UNCHANGED snoop_port
    /\ UNCHANGED outsideMSI2

\* two caches, the directory and an empty MemoryController, beside the
\* generation-1 TestSystem
InitMSI2 ==
    /\ TestSystem
    /\ v2_lines = [c \in Cores |-> [a \in MsiAddrs |-> [state |-> INVALID, data |-> 0]]]
    /\ v2_entries = [a \in MsiAddrs |-> [state |-> INVALID, sharers |-> 0]]
    /\ v2_sram = <<>>
    /\ snoop_port \in SnoopPorts
    /\ v2_op = [kind |-> "none", cache |-> 0, addr |-> 16, value |-> 0, exc |-> "none"]
    /\ IdleMESI /\ IdleWRR /\ IdleBidir /\ IdleCPU /\ IdleLater("MSI2")

\* the lockstep run works on one of the two addresses
Gen2Addrs == {16}

Gen2Cpu == \E c \in Cores, a \in Gen2Addrs, d \in WData, w \in Strobes : Gen2CpuRequest(c, a, d, w)
Gen2Evicts == \E c \in Cores, a \in Gen2Addrs : Gen2Evict(c, a)

NextMSI2 == Gen2Cpu \/ Gen2Evicts

SpecMSI2 == InitMSI2 /\ [][NextMSI2]_vars

\* ---- generation-2 claims ------------------------------------------------
\* C15: generation 2 refines generation 1: after every sequence of CPU
\* reads, CPU writes and evictions the generation-2 system has completed
\* each operation without error and agrees with generation 1 on every
\* cache line state, every directory entry, the memory contents and the
\* result of the last read.
C15_Gen2RefinesGen1 ==
    /\ v2_op.exc = "none"
    /\ \A c \in Cores, a \in MsiAddrs : v2_lines[c][a].state = msi_lines[c][a].state
    /\ \A a \in MsiAddrs : v2_entries[a] = dir_entries[a]
    /\ \A a \in MsiAddrs : MemoryController_read(v2_sram, a) = dir_memory[a]
    /\ v2_op.kind = "read" => v2_op.value = msi_op.value

\* ---- generation 2 on its own, over a memory that already holds data ------
\* a CPU read or write handed to a generation-2 cache
Gen2OnlyRequest(c, addr, wdata, wstrb) ==
    /\ v2_op.exc = "none"
    /\ \E r \in {handle_request_v2(Gen2, c, axi_request(TRUE, FALSE, FALSE, addr,
                                                        wdata, wstrb, 0))} :
           /\ SetGen2(r.g)
           /\ v2_op' = [kind |-> IF wstrb = 0 THEN "read" ELSE "write",
                        cache |-> c, addr |-> addr, value |-> r.resp.mem_rdata,
                        exc |-> r.g.exc]
    /\ UNCHANGED <<snoop_port, varsMSI>>
    /\ UNCHANGED outsideMSI2

\* an eviction on a generation-2 cache
Gen2OnlyEvict(c, addr) ==
    /\ v2_op.exc = "none"
    /\ \E r \in {evict_v2(Gen2, c, addr)} :
           /\ SetGen2(r)
           /\ v2_op' = [kind |-> "evict", cache |-> c, addr |-> addr, value |-> 0,
                        exc |-> r.exc]
    /\ UNCHANGED <<snoop_port, varsMSI>>
    /\ UNCHANGED outsideMSI2

\* the words the MemoryController holds before the caches start: nothing, or
\* any of the test words at either address
PreloadedSrams == {<<>>} \cup [MsiAddrs -> {0} \cup WData]

InitGen2Only ==
    /\ TestSystem
    /\ v2_lines = [c \in Cores |-> [a \in MsiAddrs |-> [state |-> INVALID, data |-> 0]]]
    /\ v2_entries = [a \in MsiAddrs |-> [state |-> INVALID, sharers |-> 0]]
    /\ v2_sram \in PreloadedSrams
    /\ snoop_port \in SnoopPorts
    /\ v2_op = [kind |-> "none", cache |-> 0, addr |-> 16, value |-> 0, exc |-> "none"]
    /\ IdleMESI /\ IdleWRR /\ IdleBidir /\ IdleCPU /\ IdleLater("MSI2")

Gen2OnlyCpu ==
    \E c \in Cores, a \in MsiAddrs, d \in WData, w \in Strobes : Gen2OnlyRequest(c, a, d, w)

Gen2OnlyEvicts == \E c \in Cores, a \in MsiAddrs : Gen2OnlyEvict(c, a)

NextGen2Only == Gen2OnlyCpu \/ Gen2OnlyEvicts

SpecGen2Only == InitGen2Only /\ [][NextGen2Only]_vars

\* C33: a CPU read that misses in a generation-2 cache while the directory
\* entry is Invalid or Shared (the directory handles BUS_RD from memory)
\* leaves the memory word of the address as it was, and the value that
\* comes back is that word.
C33_Gen2BusRdReadOnly ==
    [][ \A c \in Cores, a \in MsiAddrs, d \in WData :
          (/\ v2_lines[c][a].state = INVALID
           /\ v2_entries[a].state \in {INVALID, SHARED}
           /\ Gen2OnlyRequest(c, a, d, 0)
           /\ v2_op'.exc = "none") =>
              /\ MemoryController_read(v2_sram', a) = MemoryController_read(v2_sram, a)
              /\ v2_op'.value = MemoryController_read(v2_sram, a)
      ]_vars

\* ========================================================================
\* Unidirectional serializer: a tserializer feeding an rserializer
\* ========================================================================
DataSize == 4                \* data_size of both serializers (32 in run_tests)

\* the pin counts that divide the message width, 1 and the full width included
UniPinCounts == {p \in 1..DataSize : DataSize % p = 0}

\* messages of exactly the configured width, none of them a palindrome
UniMsgs == {[i \in 1..DataSize |-> IF i <= 2 THEN 1 ELSE 0],
            [i \in 1..DataSize |-> i % 2],
            [i \in 1..DataSize |-> IF i = DataSize THEN 1 ELSE 0]}

outsideUni == <<varsMESI, varsMSI, varsWRR, varsBidir, varsCPU, varsMSI2, varsStrobe, varsMem, varsPool, varsTable, varsCtor, varsPack, varsTurns, varsSer>>

\* mutation of tserializer_send_packet: the packet is built in the order
\* the bits sit in the register instead of the order they are popped
tserializer_send_packet_Reversed(t) ==
    LET Built(ch) ==
            IF ch.err # "none" THEN [t EXCEPT !.data_r = ch.q, !.err = ch.err]
            ELSE [t EXCEPT !.data_r = ch.q,
                           !.serial_o = [i \in 1..Len(ch.output) |->
                                            ch.output[Len(ch.output) + 1 - i]]]
    IN  Built(PopChunk(PadZeros(t.data_r, Len(t.data_r) % uni_pins, DataSize),
                       <<>>, uni_pins))

\* tserializer._send_packet
tserializer_send_packet(t) ==
    LET Built(ch) ==
            IF ch.err # "none" THEN [t EXCEPT !.data_r = ch.q, !.err = ch.err]
            ELSE [t EXCEPT !.data_r = ch.q, !.serial_o = ch.output]
    IN  Built(PopChunk(PadZeros(t.data_r, Len(t.data_r) % uni_pins, DataSize),
                       <<>>, uni_pins))

\* tserializer.cycle_clock
tserializer_cycle_clock(t, data_i, valid_i) ==
    LET Sent(x) == IF x.err # "none" THEN x ELSE [x EXCEPT !.ready_o = FALSE]
    IN  IF t.state = "idle"
        THEN IF valid_i
             THEN Sent(tserializer_send_packet(
                          [t EXCEPT !.ready_o = TRUE, !.data_r = data_i,
                                    !.en_o = TRUE, !.state = "send"]))
             ELSE [t EXCEPT !.ready_o = TRUE, !.data_r = data_i, !.en_o = FALSE]
        ELSE IF t.data_r # <<>> THEN tserializer_send_packet(t)
        ELSE [t EXCEPT !.state = "idle", !.en_o = FALSE, !.ready_o = TRUE]

\* rserializer._receive_packet
rserializer_receive_packet(r, serial_i) ==
    [r EXCEPT !.data_o = DequeExtendLeft(@, serial_i, DataSize)]

\* rserializer.cycle_clock: the second test on the state is an if, not an
\* elif, so the packet that starts a reception is taken in twice
rserializer_cycle_clock(r, en_i, serial_i, ready_i) ==
    LET Acked(x) == IF ready_i /\ x.valid_o THEN [x EXCEPT !.valid_o = FALSE] ELSE x
        Started(x) ==
            IF x.state = "idle" /\ en_i
            THEN rserializer_receive_packet(
                     [x EXCEPT !.state = "receive", !.valid_o = FALSE], serial_i)
            ELSE x
        Received(x) ==
            IF x.state # "receive" THEN x
            ELSE IF en_i THEN rserializer_receive_packet(x, serial_i)
            ELSE [x EXCEPT !.state = "idle", !.valid_o = TRUE]
    IN  Received(Started(Acked(r)))

\* harness bookkeeping: the message the sender latched when it left idle,
\* the message it has finished sending, and how many it has finished
NextSent(t, t2, data_i, valid_i) ==
    LET latched == IF t.state = "idle" /\ valid_i THEN data_i ELSE uni_sent.latched
        finished == t.state = "send" /\ t2.state = "idle"
    IN  [latched |-> latched,
         completed |-> IF finished THEN uni_sent.latched ELSE uni_sent.completed,
         count |-> IF finished /\ uni_sent.count < 2 THEN uni_sent.count + 1
                   ELSE uni_sent.count]

\* unidir_serializer_test.cycle: both clocks, then the sender's outputs are
\* copied to the receiver's inputs for the next clock
uni_cycle(data_i, valid_i, ready_i) ==
    /\ tdut.err = "none"
    /\ \E t2 \in {tserializer_cycle_clock(tdut, data_i, valid_i)} :
           /\ tdut' = t2
           /\ rinput' = [en_i |-> t2.en_o, serial_i |-> t2.serial_o]
           /\ uni_sent' = NextSent(tdut, t2, data_i, valid_i)
    /\ \E r2 \in {rserializer_cycle_clock(rdut, rinput.en_i, rinput.serial_i, ready_i)} :
           /\ rdut' = r2
           /\ uni_read' = IF r2.valid_o /\ ~rdut.valid_o THEN FALSE ELSE uni_read
    /\ UNCHANGED uni_pins
    /\ UNCHANGED outsideUni

\* unidir_serializer_test.deque_to_bstr(rdut.data_o): the harness reads the
\* received message by popping it out of data_o
deque_to_bstr ==
    /\ tdut.err = "none"
    /\ rdut.state = "idle" /\ rdut.valid_o /\ ~uni_read
    /\ rdut' = [rdut EXCEPT !.data_o = <<>>]
    /\ uni_read' = TRUE
    /\ UNCHANGED <<uni_pins, tdut, rinput, uni_sent>>
    /\ UNCHANGED outsideUni

\* run_tests: both serializers freshly built
InitUni ==
    /\ uni_pins \in UniPinCounts
    /\ tdut = [state |-> "idle", en_o |-> FALSE, serial_o |-> [i \in 1..uni_pins |-> 0],
               ready_o |-> TRUE, data_r |-> <<>>, err |-> "none"]
    /\ rdut = [state |-> "idle", valid_o |-> FALSE, data_o |-> <<>>]
    /\ rinput = [en_i |-> FALSE, serial_i |-> [i \in 1..uni_pins |-> 0]]
    /\ uni_sent = [latched |-> <<>>, completed |-> <<>>, count |-> 0]
    /\ uni_read = FALSE
    /\ IdleFirst /\ IdleLater("Uni")

\* valid_i is raised only with a message of the configured width on data_i
UniCycle ==
    \/ \E msg \in UniMsgs, ready_i \in BOOLEAN : uni_cycle(msg, TRUE, ready_i)
    \/ \E data_i \in UniMsgs \cup {<<>>}, ready_i \in BOOLEAN : uni_cycle(data_i, FALSE, ready_i)

NextUni == UniCycle \/ deque_to_bstr

SpecUni == InitUni /\ [][NextUni]_vars

\* ---- unidirectional serializer claims -----------------------------------
\* C17: for any message of exactly the configured width and any pin count
\* dividing that width, whenever the receiver asserts valid_o (and the
\* harness has not yet popped the message out) data_o equals the message the
\* sender completed, bit for bit, back-to-back sends included.
C17_UniRoundTrip ==
    (rdut.valid_o /\ ~uni_read) => rdut.data_o = uni_sent.completed

\* C17 witness: the second message in a row has arrived on two pins while
\* the sender is already sending again.
C17_Witness ==
    /\ uni_pins = 2
    /\ uni_sent.count = 2
    /\ rdut.valid_o /\ ~uni_read
    /\ rdut.data_o = [i \in 1..DataSize |-> IF i <= 2 THEN 1 ELSE 0]
    /\ rdut.data_o = uni_sent.completed
    /\ tdut.state = "send"

\* ========================================================================
\* Byte-strobe merge on 32-bit words: util.apply_wstrb and its copies in the
\* generation-1 cache and directory. A word is held as its four byte lanes
\* (lane 0 = bits 7:0), on which &, | and ~ act lane by lane.
\* ========================================================================
Lanes == 0 .. 3

Word(b3, b2, b1, b0) == (0 :> b0) @@ (1 :> b1) @@ (2 :> b2) @@ (3 :> b3)

WordAnd(x, y) == [i \in Lanes |-> BitAnd(x[i], y[i])]
WordOr(x, y) == [i \in Lanes |-> x[i] + y[i] - BitAnd(x[i], y[i])]
WordNot(x) == [i \in Lanes |-> 255 - x[i]]

\* byte_mask = 0xFF << (8 * i)
byte_mask(i) == [j \in Lanes |-> IF j = i THEN 255 ELSE 0]

\* util.apply_wstrb: one pass of the loop body, then the four passes
util_apply_wstrb_body(result, new_value, wstrb, i) ==
    IF (wstrb \div Pow2(i)) % 2 = 1
    THEN WordOr(WordAnd(result, WordNot(byte_mask(i))), WordAnd(new_value, byte_mask(i)))
    ELSE result

util_apply_wstrb(old_value, new_value, wstrb) ==
    util_apply_wstrb_body(
        util_apply_wstrb_body(
            util_apply_wstrb_body(
                util_apply_wstrb_body(old_value, new_value, wstrb, 0),
                new_value, wstrb, 1),
            new_value, wstrb, 2),
        new_value, wstrb, 3)

\* arbitration_cachecoh/cache.py apply_wstrb
cache_apply_wstrb_body(result, new_value, wstrb, i) ==
    IF (wstrb \div Pow2(i)) % 2 = 1
    THEN WordOr(WordAnd(result, WordNot(byte_mask(i))), WordAnd(new_value, byte_mask(i)))
    ELSE result

cache_apply_wstrb(old_value, new_value, wstrb) ==
    cache_apply_wstrb_body(
        cache_apply_wstrb_body(
            cache_apply_wstrb_body(
                cache_apply_wstrb_body(old_value, new_value, wstrb, 0),
                new_value, wstrb, 1),
            new_value, wstrb, 2),
        new_value, wstrb, 3)

\* mutation of directory_apply_wstrb_body: the lane is not cleared before
\* the new byte is or-ed in
directory_apply_wstrb_body_NoClear(result, new_value, wstrb, i) ==
    IF (wstrb \div Pow2(i)) % 2 = 1
    THEN WordOr(result, WordAnd(new_value, byte_mask(i)))
    ELSE result

\* arbitration_cachecoh/directory.py apply_wstrb
directory_apply_wstrb_body(result, new_value, wstrb, i) ==
    IF (wstrb \div Pow2(i)) % 2 = 1
    THEN WordOr(WordAnd(result, WordNot(byte_mask(i))), WordAnd(new_value, byte_mask(i)))
    ELSE result

directory_apply_wstrb(old_value, new_value, wstrb) ==
    directory_apply_wstrb_body(
        directory_apply_wstrb_body(
            directory_apply_wstrb_body(
                directory_apply_wstrb_body(old_value, new_value, wstrb, 0),
                new_value, wstrb, 1),
            new_value, wstrb, 2),
        new_value, wstrb, 3)

\* the 32-bit words the calls are made with
OldWords == {Word(170, 187, 204, 221), Word(0, 0, 0, 0),
             Word(255, 255, 255, 255), Word(18, 52, 86, 120)}
NewWords == {Word(17, 34, 51, 68), Word(255, 255, 255, 255),
             Word(128, 0, 0, 1), Word(0, 0, 0, 0)}

outsideStrobe == <<varsMESI, varsMSI, varsWRR, varsBidir, varsCPU, varsMSI2, varsUni, varsMem, varsPool, varsTable, varsCtor, varsPack, varsTurns, varsSer>>

\* one merge by each copy, and the merge applied again to its own result
ApplyWstrb ==
    /\ ~ws_res.done
    /\ ws_res' = [done |-> TRUE,
                  util |-> util_apply_wstrb(ws_old, ws_new, ws_strb),
                  cache |-> cache_apply_wstrb(ws_old, ws_new, ws_strb),
                  directory |-> directory_apply_wstrb(ws_old, ws_new, ws_strb),
                  twice |-> ws_res.util]
    /\ UNCHANGED <<ws_old, ws_new, ws_strb>>
    /\ UNCHANGED outsideStrobe

ApplyWstrbAgain ==
    /\ ws_res.done
    /\ ws_res.twice = <<>>
    /\ ws_res' = [ws_res EXCEPT !.twice = util_apply_wstrb(ws_res.util, ws_new, ws_strb)]
    /\ UNCHANGED <<ws_old, ws_new, ws_strb>>
    /\ UNCHANGED outsideStrobe

InitStrobe ==
    /\ ws_old \in OldWords
    /\ ws_new \in NewWords
    /\ ws_strb \in 0 .. 15
    /\ ws_res = [done |-> FALSE, util |-> <<>>, cache |-> <<>>, directory |-> <<>>,
                 twice |-> <<>>]
    /\ IdleFirst /\ IdleLater("Strobe")

NextStrobe == ApplyWstrb \/ ApplyWstrbAgain

SpecStrobe == InitStrobe /\ [][NextStrobe]_vars

McAddrs == {4}
\* 0x12345678 and 0x0000BEEF
McData == {305419896, 48879}

outsideMem == <<varsMESI, varsMSI, varsWRR, varsBidir, varsCPU, varsMSI2, varsUni, varsStrobe, varsPool, varsTable, varsCtor, varsPack, varsTurns, varsSer>>

\* await MemoryController.write(address, data, write_strobe)
mc_write(address, data, write_strobe) ==
    /\ mc_sram' = MemoryController_write(mc_sram, address, data, write_strobe)
    /\ mc_op' = [kind |-> "write", addr |-> address, data |-> data, strobe |-> write_strobe,
                 old |-> MemoryController_read(mc_sram, address), rdata |-> 0]
    /\ UNCHANGED outsideMem

\* await MemoryController.read(address), of the address last written
mc_read ==
    /\ mc_op.kind = "write"
    /\ mc_op' = [mc_op EXCEPT !.kind = "read",
                              !.rdata = MemoryController_read(mc_sram, mc_op.addr)]
    /\ UNCHANGED mc_sram
    /\ UNCHANGED outsideMem

InitMem ==
    /\ mc_sram = <<>>
    /\ mc_op = [kind |-> "none", addr |-> 0, data |-> 0, strobe |-> 0, old |-> 0, rdata |-> 0]
    /\ IdleFirst /\ IdleLater("Mem")

NextMem ==
    \/ \E address \in McAddrs, data \in McData, write_strobe \in 0 .. 15 :
          mc_write(address, data, write_strobe)
    \/ mc_read

SpecMem == InitMem /\ [][NextMem]_vars

\* ---- plain memory controller claims -------------------------------------
\* C19: after MemoryController.write(addr, data, strobe) over a word holding
\* O, a read of addr returns the word whose byte lane i is data's byte if
\* strobe bit i is set and O's byte otherwise; with strobe 0b1111 the read
\* returns data.
C19_McWriteMerges ==
    mc_op.kind = "read" =>
        /\ \A i \in Lanes :
              Byte(mc_op.rdata, i) = IF (mc_op.strobe \div Pow2(i)) % 2 = 1
                                     THEN Byte(mc_op.data, i) ELSE Byte(mc_op.old, i)
        /\ mc_op.strobe = 15 => mc_op.rdata = mc_op.data

\* ========================================================================
\* Memory pools (memorypool.py MemoryPool, mesi_test.py StrictMemoryPool)
\* called directly with addresses in and out of [base, base + size).
\* ========================================================================
PoolSize == 2
MaxPoolOps == 3

\* _valid of either pool
pool_valid(p, addr) == p.BASE_ADDR <= addr /\ addr < p.BASE_ADDR + p.SIZE

\* MemoryPool.write: byte by byte, raising at the first byte out of range
RECURSIVE MemoryPool_write(_, _, _, _)
MemoryPool_write(p, addr, data, i) ==
    IF i > Len(data) THEN [pool |-> p, raised |-> FALSE]
    ELSE IF ~pool_valid(p, addr + i - 1) THEN [pool |-> p, raised |-> TRUE]
    ELSE MemoryPool_write([p EXCEPT !.mem = DictPut(@, addr + i - 1, data[i])],
                          addr, data, i + 1)

\* dict.get(k, default)
DictGet(d, k, default) == IF k \in DOMAIN d THEN d[k] ELSE default

\* MemoryPool.read: unwritten bytes read as 0
MemoryPool_read(p, addr, size) ==
    IF \E i \in 1 .. size : ~pool_valid(p, addr + i - 1)
    THEN [data |-> <<>>, raised |-> TRUE]
    ELSE [data |-> [i \in 1 .. size |-> DictGet(p.mem, addr + i - 1, 0)], raised |-> FALSE]

\* StrictMemoryPool.write: the same loop, then writes += 1
RECURSIVE StrictMemoryPool_write_loop(_, _, _, _)
StrictMemoryPool_write_loop(p, addr, data, i) ==
    IF i > Len(data) THEN [pool |-> p, raised |-> FALSE]
    ELSE IF ~pool_valid(p, addr + i - 1) THEN [pool |-> p, raised |-> TRUE]
    ELSE StrictMemoryPool_write_loop([p EXCEPT !.mem = DictPut(@, addr + i - 1, data[i])],
                                     addr, data, i + 1)

StrictMemoryPool_write(p, addr, data) ==
    LET r == StrictMemoryPool_write_loop(p, addr, data, 1)
    IN  IF r.raised THEN r ELSE [r EXCEPT !.pool.writes = @ + 1]

\* StrictMemoryPool.read: the bytes and the pool with reads += 1
StrictMemoryPool_read(p, addr, size) ==
    IF \E i \in 1 .. size : ~pool_valid(p, addr + i - 1)
    THEN [data |-> <<>>, raised |-> TRUE, pool |-> p]
    ELSE [data |-> [i \in 1 .. size |-> DictGet(p.mem, addr + i - 1, 0)], raised |-> FALSE,
          pool |-> [p EXCEPT !.reads = @ + 1]]

PoolAddrs == (BASE_ADDR - 1) .. (BASE_ADDR + PoolSize)
PoolData == {<<7>>, <<7, 9>>}

outsidePool == <<varsMESI, varsMSI, varsWRR, varsBidir, varsCPU, varsMSI2, varsUni, varsStrobe, varsMem, varsTable, varsCtor, varsPack, varsTurns, varsSer>>

\* pool.write(addr, data) and strict_pool.write(addr, data)
pool_write(addr, data) ==
    /\ pool_op.n < MaxPoolOps
    /\ \E r \in {MemoryPool_write(pool, addr, data, 1)},
          sr \in {StrictMemoryPool_write(strict_pool, addr, data)} :
          /\ pool' = r.pool
          /\ strict_pool' = sr.pool
          /\ pool_op' = [kind |-> "write", addr |-> addr, size |-> Len(data), data |-> data,
                         raised |-> r.raised, strict_raised |-> sr.raised,
                         before |-> pool, strict_before |-> strict_pool,
                         n |-> pool_op.n + 1]
    /\ UNCHANGED outsidePool

\* pool.read(addr, size) and strict_pool.read(addr, size)
pool_read(addr, size) ==
    /\ pool_op.n < MaxPoolOps
    /\ \E r \in {MemoryPool_read(pool, addr, size)},
          sr \in {StrictMemoryPool_read(strict_pool, addr, size)} :
          /\ strict_pool' = sr.pool
          /\ pool_op' = [kind |-> "read", addr |-> addr, size |-> size, data |-> r.data,
                         raised |-> r.raised, strict_raised |-> sr.raised,
                         before |-> pool, strict_before |-> strict_pool,
                         n |-> pool_op.n + 1]
    /\ UNCHANGED pool
    /\ UNCHANGED outsidePool

InitPool ==
    /\ pool = [BASE_ADDR |-> BASE_ADDR, SIZE |-> PoolSize, mem |-> <<>>]
    /\ strict_pool = [BASE_ADDR |-> BASE_ADDR, SIZE |-> PoolSize, mem |-> <<>>,
                      reads |-> 0, writes |-> 0]
    /\ pool_op = [kind |-> "none", addr |-> 0, size |-> 0, data |-> <<>>,
                  raised |-> FALSE, strict_raised |-> FALSE,
                  before |-> <<>>, strict_before |-> <<>>, n |-> 0]
    /\ IdleFirst /\ IdleLater("Pool")

NextPool ==
    \/ \E addr \in PoolAddrs, data \in PoolData : pool_write(addr, data)
    \/ \E addr \in PoolAddrs, size \in 1 .. 2 : pool_read(addr, size)

SpecPool == InitPool /\ [][NextPool]_vars

\* the call of pool_op touches a byte outside [base, base + size)
PoolOpOutside ==
    \E i \in 1 .. pool_op.size : ~pool_valid(pool, pool_op.addr + i - 1)

\* ---- memory pool claims -------------------------------------------------
\* C20: a read or write touching any byte outside [base, base + size) raises
\* and a write that raises leaves every byte of the pool and the strict
\* pool's counters unchanged; a call entirely in range never raises, and
\* bytes never written read as 0.
C20_PoolAllOrNothing ==
    pool_op.kind # "none" =>
        /\ pool_op.raised = PoolOpOutside
        /\ pool_op.strict_raised = PoolOpOutside
        /\ (pool_op.kind = "write" /\ pool_op.raised) =>
              /\ pool = pool_op.before
              /\ strict_pool = pool_op.strict_before
        /\ (pool_op.kind = "read" /\ ~pool_op.raised) =>
              \A i \in 1 .. pool_op.size :
                  (pool_op.addr + i - 1) \notin DOMAIN pool.mem => pool_op.data[i] = 0

\* ========================================================================
\* The MSI transition tables called directly: one cache line driven through
\* a sequence of processor and snoop events.
\* ========================================================================
MaxFsmOps == 7

MSIStates == {INVALID, SHARED, MODIFIED}
ProcessorEvents == {PR_RD, PR_WR}
SnoopEvents == {Snoop_BUS_RD, Snoop_BUS_RDX, Snoop_BUS_UPGR}

outsideTable == <<varsMESI, varsMSI, varsWRR, varsBidir, varsCPU, varsMSI2, varsUni, varsStrobe, varsMem, varsPool, varsCtor, varsPack, varsTurns, varsSer>>

\* tr = on_processor_event(line.state, event); line.state = tr.next_state
fsm_processor(event) ==
    /\ fsm_n < MaxFsmOps
    /\ \E tr \in {on_processor_event(fsm_state, event)} :
          /\ fsm_state' = tr.next_state
          /\ fsm_last' = [kind |-> "processor", state |-> fsm_state, event |-> event,
                          result |-> tr]
    /\ fsm_n' = fsm_n + 1
    /\ UNCHANGED outsideTable

\* tr = on_snoop_event(line.state, event); line.state = tr.next_state
fsm_snoop(event) ==
    /\ fsm_n < MaxFsmOps
    /\ \E tr \in {on_snoop_event(fsm_state, event)} :
          /\ fsm_state' = tr.next_state
          /\ fsm_last' = [kind |-> "snoop", state |-> fsm_state, event |-> event,
                          result |-> tr]
    /\ fsm_n' = fsm_n + 1
    /\ UNCHANGED outsideTable

InitTable ==
    /\ fsm_state \in MSIStates
    /\ fsm_last = [kind |-> "none", state |-> fsm_state, event |-> 0,
                   result |-> TransitionResult(fsm_state, NoCmd, FALSE)]
    /\ fsm_n = 0
    /\ IdleFirst /\ IdleLater("Table")

NextTable ==
    \/ \E event \in ProcessorEvents : fsm_processor(event)
    \/ \E event \in SnoopEvents : fsm_snoop(event)

SpecTable == InitTable /\ [][NextTable]_vars

\* the processor-side table of the protocol: state, event, next state,
\* command issued
ProcessorTable ==
    {<<INVALID, PR_RD, SHARED, BUS_RD>>, <<INVALID, PR_WR, MODIFIED, BUS_RDX>>,
     <<SHARED, PR_RD, SHARED, NoCmd>>, <<SHARED, PR_WR, MODIFIED, BUS_UPGR>>,
     <<MODIFIED, PR_RD, MODIFIED, NoCmd>>, <<MODIFIED, PR_WR, MODIFIED, NoCmd>>}

\* the snoop-side table: state, event, next state, flush
SnoopTable ==
    {<<INVALID, Snoop_BUS_RD, INVALID, FALSE>>, <<INVALID, Snoop_BUS_RDX, INVALID, FALSE>>,
     <<INVALID, Snoop_BUS_UPGR, INVALID, FALSE>>,
     <<SHARED, Snoop_BUS_RD, SHARED, FALSE>>, <<SHARED, Snoop_BUS_RDX, INVALID, FALSE>>,
     <<SHARED, Snoop_BUS_UPGR, INVALID, FALSE>>,
     <<MODIFIED, Snoop_BUS_RD, SHARED, TRUE>>, <<MODIFIED, Snoop_BUS_RDX, INVALID, TRUE>>,
     <<MODIFIED, Snoop_BUS_UPGR, MODIFIED, FALSE>>}

\* ---- transition table claims --------------------------------------------
\* C25: on_processor_event and on_snoop_event return, for every state and
\* event, exactly the entry of the MSI tables: next state and command for a
\* processor event (never a flush), next state and flush for a snoop (never
\* a command).
C25_MsiTransitionTables ==
    /\ fsm_last.kind = "processor" =>
          /\ <<fsm_last.state, fsm_last.event, fsm_last.result.next_state,
               fsm_last.result.issue_cmd>> \in ProcessorTable
          /\ ~fsm_last.result.flush
    /\ fsm_last.kind = "snoop" =>
          /\ <<fsm_last.state, fsm_last.event, fsm_last.result.next_state,
               fsm_last.result.flush>> \in SnoopTable
          /\ fsm_last.result.issue_cmd = NoCmd
    /\ fsm_last.kind # "none" => fsm_state = fsm_last.result.next_state

\* C25 witness: a Modified line has just been snooped by BusUpgr and stays
\* Modified without a flush, after other events.
C25_Witness ==
    /\ fsm_n > 2
    /\ fsm_state = MODIFIED
    /\ fsm_last = [kind |-> "snoop", state |-> MODIFIED, event |-> Snoop_BUS_UPGR,
                   result |-> TransitionResult(MODIFIED, NoCmd, FALSE)]

\* ========================================================================
\* Construction of the driver: CPU(size, test_cases) for any number of
\* cores and any test list, and the order in which a core's stack is used
\* ========================================================================
MaxCpuSize == 3              \* CPU(size, ...): size in 1 .. MaxCpuSize
MaxTestCases == 4            \* length of the test list: 0 .. MaxTestCases

outsideCtor == <<varsMESI, varsMSI, varsWRR, varsBidir, varsCPU, varsMSI2, varsUni, varsStrobe, varsMem, varsPool, varsTable, varsPack, varsTurns, varsSer>>

\* WeightedRoundRobinArbiter.__init__, the error checking
WeightedRoundRobinArbiter_init(num_requesters_in, weights_in) ==
    IF Len(weights_in) # num_requesters_in THEN "ValueError"
    ELSE IF \E i \in 1..Len(weights_in) : weights_in[i] <= 0 THEN "ValueError"
    ELSE "ok"

\* CPU.__init__, the loops "for i in range(0, len(test_cases), size)" and
\* "for k in range(size)": test_cases[i+k] is appended to stack k, and an
\* index past the end of the list raises
RECURSIVE build_workloads(_, _, _, _, _)
build_workloads(w, cases, size, i, k) ==
    IF i >= Len(cases) THEN [status |-> "ok", core_workloads |-> w]
    ELSE IF k = size THEN build_workloads(w, cases, size, i + size, 0)
    ELSE IF i + k >= Len(cases) THEN [status |-> "IndexError", core_workloads |-> <<>>]
    ELSE build_workloads([w EXCEPT ![k] = Append(@, cases[i + k + 1])], cases, size, i, k + 1)

\* CPU.__init__: the arbiter is built with the weight list [1, 1], then the
\* stacks are filled
CPU_init(size, cases) ==
    IF WeightedRoundRobinArbiter_init(size, <<1, 1>>) # "ok"
    THEN [status |-> "ValueError", core_workloads |-> <<>>]
    ELSE build_workloads([k \in 0..(size - 1) |-> <<>>], cases, size, 0, 0)

\* cpu = CPU(size, test_cases); start_sim's deep copy of the stacks
Construct ==
    /\ cpu_status = "none"
    /\ \E r \in {CPU_init(cpu_size, cpu_test_cases)} :
          /\ cpu_status' = r.status
          /\ cpu_core_workloads' = r.core_workloads
          /\ cpu_copy' = r.core_workloads
          /\ cpu_popped' = [k \in DOMAIN r.core_workloads |-> <<>>]
    /\ UNCHANGED <<cpu_size, cpu_test_cases>>
    /\ UNCHANGED outsideCtor

\* start_sim: core k's item is core_workloads_copy[k][-1], removed by pop()
PopItem(k) ==
    /\ cpu_status = "ok"
    /\ k \in DOMAIN cpu_copy
    /\ cpu_copy[k] # <<>>
    /\ cpu_popped' = [cpu_popped EXCEPT ![k] = Append(@, cpu_copy[k][Len(cpu_copy[k])])]
    /\ cpu_copy' = [cpu_copy EXCEPT ![k] = SubSeq(@, 1, Len(@) - 1)]
    /\ UNCHANGED <<cpu_size, cpu_test_cases, cpu_status, cpu_core_workloads>>
    /\ UNCHANGED outsideCtor

TestLists == UNION {[1..n -> CaseSet] : n \in 0..MaxTestCases}

InitCtor ==
    /\ cpu_size \in 1..MaxCpuSize
    /\ cpu_test_cases \in TestLists
    /\ cpu_status = "none"
    /\ cpu_core_workloads = <<>>
    /\ cpu_copy = <<>>
    /\ cpu_popped = <<>>
    /\ IdleFirst /\ IdleLater("Ctor")

CtorPop == \E k \in 0..(MaxCpuSize - 1) : PopItem(k)

NextCtor == Construct \/ CtorPop

SpecCtor == InitCtor /\ [][NextCtor]_vars

ReverseSeq(q) == [i \in 1..Len(q) |-> q[Len(q) + 1 - i]]

\* the test cases j with j mod size = k, in list order (j counted from 0)
ExpectedStack(cases, size, k) ==
    LET n == Cardinality({j \in 0..(Len(cases) - 1) : j % size = k})
    IN  [m \in 1..n |-> cases[(m - 1) * size + k + 1]]

\* C30: for every size >= 1 and every test list the construction succeeds,
\* stack k holds exactly the test cases j with j mod size = k in list order,
\* and a core takes its items from the end of its stack.
C30_WorkloadPartition ==
    cpu_status # "none" =>
        /\ cpu_status = "ok"
        /\ DOMAIN cpu_core_workloads = 0..(cpu_size - 1)
        /\ \A k \in 0..(cpu_size - 1) :
              /\ cpu_core_workloads[k] = ExpectedStack(cpu_test_cases, cpu_size, k)
              /\ cpu_core_workloads[k] = cpu_copy[k] \o ReverseSeq(cpu_popped[k])

\* ========================================================================
\* The packed coherence command word of generation 1, at the places that
\* build one. Python integers are unbounded: the word is held as its part
\* above bit 15 (hi) and its low 16 bits (lo), word = hi * 2^16 + lo.
\* ========================================================================
PackData == {2571, 305419896}     \* 0x0A0B and 0x12345678, written by the CPU
PackStrobes == {3, 15}            \* the low half-word, the whole word

outsidePack == <<varsMESI, varsMSI, varsWRR, varsBidir, varsCPU, varsMSI2, varsUni, varsStrobe, varsMem, varsPool, varsTable, varsCtor, varsTurns, varsSer>>

\* pack_cmd: (payload << 16) | ((core_id & 0xFF) << 8) | (int(cmd) & 0xFF);
\* the two right-hand terms lie below bit 16, so the shifted payload is or-ed
\* in without meeting them
pack_cmd_word(cmd, core_id, payload) ==
    [hi |-> payload, lo |-> (core_id % 256) * 256 + (cmd % 256)]

\* unpack_cmd: word & 0xFF, (word >> 8) & 0xFF, word >> 16
unpack_cmd_word(word) ==
    [cmd |-> word.lo % 256, core_id |-> (word.lo \div 256) % 256, payload |-> word.hi]

\* what a call site packed and what the receiver unpacked
Packed(site, cmd, core_id, payload) ==
    [site |-> site, cmd |-> cmd, core_id |-> core_id, payload |-> payload,
     word |-> pack_cmd_word(cmd, core_id, payload),
     unpacked |-> unpack_cmd_word(pack_cmd_word(cmd, core_id, payload))]

\* CacheController._cpu_write, the merge into the line
PackCpuWrite(c, wdata, wstrb) ==
    /\ pk_line' = [pk_line EXCEPT ![c] = apply_wstrb(@, wdata, wstrb)]
    /\ pk_last' = Packed("_send_dir_cmd", BUS_RDX, c, 0)
    /\ UNCHANGED outsidePack

\* CacheController._send_dir_cmd(cmd, addr) with the default payload
PackDirCmd(c, cmd) ==
    /\ pk_last' = Packed("_send_dir_cmd", cmd, c, 0)
    /\ UNCHANGED pk_line
    /\ UNCHANGED outsidePack

\* CacheController.evict of a Modified line:
\* _send_dir_cmd(EVICT_DIRTY, addr, line.data)
PackEvictDirty(c) ==
    /\ pk_last' = Packed("evict", EVICT_DIRTY, c, pk_line[c])
    /\ UNCHANGED pk_line
    /\ UNCHANGED outsidePack

\* DirectoryController._send_snoop: pack_cmd(snoop_cmd, requester)
PackSnoop(snoop_cmd, requester) ==
    /\ pk_last' = Packed("_send_snoop", snoop_cmd, requester, 0)
    /\ UNCHANGED pk_line
    /\ UNCHANGED outsidePack

InitPack ==
    /\ pk_line = [c \in Cores |-> 0]
    /\ pk_last = [site |-> "none"]
    /\ IdleFirst /\ IdleLater("Pack")

NextPack ==
    \/ \E c \in Cores, d \in PackData, w \in PackStrobes : PackCpuWrite(c, d, w)
    \/ \E c \in Cores, cmd \in {BUS_RD, BUS_UPGR, EVICT_CLEAN} : PackDirCmd(c, cmd)
    \/ \E c \in Cores : PackEvictDirty(c)
    \/ \E c \in Cores, cmd \in {SNOOP_BUS_RD, SNOOP_BUS_RDX, SNOOP_BUS_UPGR} : PackSnoop(cmd, c)

SpecPack == InitPack /\ [][NextPack]_vars

\* C34: every command word built is below 2^32 (nothing above bit 31: the
\* part above bit 15 is below 2^16), with the core id in bits [15:8] and the
\* command in bits [7:0], and unpack_cmd returns the command, core id and
\* payload that were packed.
C34_CommandWord32Bits ==
    pk_last.site # "none" =>
        /\ pk_last.word.hi < 65536
        /\ pk_last.word.lo = pk_last.core_id * 256 + pk_last.cmd
        /\ pk_last.unpacked = [cmd |-> pk_last.cmd, core_id |-> pk_last.core_id,
                               payload |-> pk_last.payload]

\* ========================================================================
\* The two bidirectional serializers with both sides asserting tvalid on
\* every cycle, and a record of which side sent last
\* ========================================================================
\* what a side presents while it keeps tvalid asserted
BusyMessages == {<<1, 0>>, <<1>>}

outsideTurns == <<varsMESI, varsMSI, varsWRR, varsCPU, varsMSI2, varsUni, varsStrobe, varsMem, varsPool, varsTable, varsCtor, varsPack, varsSer>>

\* the sides that begin a transfer in this cycle
Starts(s) == dut[s].state # "send" /\ dut'[s].state = "send"

\* cycle with tvalid held on both sides
BusyCycle(rready, tdata) ==
    /\ bidir_cycle(rready, [s \in Sides |-> TRUE], tdata)
    /\ bf_last' = IF Starts(0) /\ ~Starts(1) THEN 0
                  ELSE IF Starts(1) /\ ~Starts(0) THEN 1
                  ELSE bf_last
    /\ UNCHANGED outsideTurns

InitBusy ==
    /\ num_pins \in PinCounts
    /\ \E p \in BOOLEAN : dut = [s \in Sides |-> NewSerializer(IF s = 0 THEN p ELSE ~p)]
    /\ input_req_i = [s \in Sides |-> FALSE]
    /\ input_serial_i = ZeroWire
    /\ bidir_err = "none"
    /\ bf_last = 2            \* no transfer started yet
    /\ IdleMESI /\ IdleMSI /\ IdleWRR /\ IdleCPU /\ IdleLater("Turns")

NextBusy ==
    \E rready \in [Sides -> BOOLEAN], tdata \in [Sides -> BusyMessages] :
        BusyCycle(rready, tdata)

\* the test bench clocks both sides for ever
SpecBidirBusy == InitBusy /\ [][NextBusy]_vars /\ WF_vars(NextBusy)

\* C36: with tvalid asserted continuously on both sides, a side never starts
\* two transfers in a row and never starts one together with its peer; when
\* both sides are requesting, the one that starts is the one holding the
\* priority and the other enters receive with its request kept, so that it
\* is the next to send; no call raises; and each side is sending infinitely
\* often.
C36_BidirFairness ==
    /\ [][ \A s \in Sides :
             /\ Starts(s) => (bf_last # s /\ ~Starts(1 - s))
             /\ (Starts(s) /\ dut[1 - s].state = "request")
                    => /\ dut[s].priority
                       /\ dut'[1 - s].state = "receive"
                       /\ dut'[1 - s].req_o
                       /\ dut'[1 - s].priority
             /\ bidir_err' = "none"
         ]_vars
    /\ \A s \in Sides : []<>(dut[s].state = "send")

\* C36 witness: side 0 lost the first contention, has since sent, and side 1
\* is sending again while side 0 receives with its next request latched.
C36_Witness ==
    /\ bf_last = 1
    /\ dut[1].state = "send" /\ dut[1].driving
    /\ dut[0].state = "receive" /\ dut[0].req_o
    /\ dut[0].rvalid_o
    /\ dut[1].rdata_o # <<>>

\* ========================================================================
\* The three-phase serializer (serializer.py), one instance clocked with
\* free inputs
\* ========================================================================
SerPinCounts == {1, 2}                    \* num_pins
SerMessages == {<<>>, <<1>>, <<1, 0>>}    \* tdata_i, at most MsgSize bits

outsideSer == <<varsMESI, varsMSI, varsWRR, varsBidir, varsCPU, varsMSI2, varsUni, varsStrobe, varsMem, varsPool, varsTable, varsCtor, varsPack, varsTurns>>

\* the wire values a clock may present
SerWires == [1..ser_pins -> {0, 1}]

\* serializer._send_serial_packet: num_pins pops from the right end, zeros
\* once the buffer is empty
RECURSIVE PopOrZero(_, _, _)
PopOrZero(q, output, n) ==
    IF n = 0 THEN [q |-> q, output |-> output]
    ELSE IF q # <<>>
    THEN PopOrZero(SubSeq(q, 1, Len(q) - 1), Append(output, q[Len(q)]), n - 1)
    ELSE PopOrZero(q, Append(output, 0), n - 1)

serializer_send_serial_packet(d) ==
    LET r == PopOrZero(d.tdata_r, <<>>, ser_pins)
    IN  [d EXCEPT !.tdata_r = r.q, !.serial_io = r.output]

\* serializer._receive_serial_packet
serializer_receive_serial_packet(d) ==
    [d EXCEPT !.rdata_o = DequeExtendLeft(@, d.serial_io, MsgSize)]

\* serializer.cycle_clock: in idle the two moves are two separate if
\* statements, the second one reading the priority the first one wrote
serializer_cycle_clock(d, req_i, serial_i, rready_i, tvalid_i, tdata_i) ==
    LET d_in == [d EXCEPT !.req_i = req_i, !.serial_io = serial_i]
        d_rv == IF rready_i THEN [d_in EXCEPT !.rvalid_o = FALSE] ELSE d_in
    IN  IF d_rv.state = "idle"
        THEN LET d_ld == [d_rv EXCEPT !.req_o = tvalid_i, !.tdata_r = tdata_i,
                                      !.driving = FALSE]
                 d_snd == IF tvalid_i /\ ((~req_i) \/ d_ld.priority)
                          THEN serializer_send_serial_packet(
                                   [d_ld EXCEPT !.priority = FALSE, !.driving = TRUE,
                                                !.tready_o = FALSE, !.state = "send"])
                          ELSE d_ld
             IN  IF req_i /\ ((~tvalid_i) \/ (~d_snd.priority))
                 THEN [d_snd EXCEPT !.rdata_r = <<>>, !.priority = TRUE,
                                    !.tready_o = FALSE, !.state = "receive"]
                 ELSE d_snd
        ELSE IF d_rv.state = "send"
        THEN IF d_rv.tdata_r # <<>>
             THEN serializer_send_serial_packet(d_rv)
             ELSE [d_rv EXCEPT !.state = "idle", !.driving = FALSE,
                               !.tready_o = TRUE, !.req_o = FALSE]
        ELSE \* receive
             IF req_i
             THEN serializer_receive_serial_packet(d_rv)
             ELSE [d_rv EXCEPT !.state = "idle", !.rvalid_o = TRUE, !.tready_o = TRUE]

\* serializer.__init__
serializer_init(init_priority) ==
    [serial_io |-> [i \in 1..ser_pins |-> 0], req_o |-> FALSE, req_i |-> FALSE,
     rvalid_o |-> FALSE, rdata_o |-> <<>>, rdata_r |-> <<>>, tready_o |-> TRUE,
     tdata_r |-> <<>>, state |-> "idle", priority |-> init_priority,
     driving |-> FALSE]

SerCycle(req_i, serial_i, rready_i, tvalid_i, tdata_i) ==
    /\ ser' = serializer_cycle_clock(ser, req_i, serial_i, rready_i, tvalid_i, tdata_i)
    /\ UNCHANGED ser_pins
    /\ UNCHANGED outsideSer

InitSer ==
    /\ ser_pins \in SerPinCounts
    /\ \E p \in BOOLEAN : ser = serializer_init(p)
    /\ IdleFirst /\ IdleLater("Ser")

NextSer ==
    \E req_i \in BOOLEAN, serial_i \in SerWires, rready_i \in BOOLEAN,
       tvalid_i \in BOOLEAN, tdata_i \in SerMessages :
        SerCycle(req_i, serial_i, rready_i, tvalid_i, tdata_i)

SpecSer == InitSer /\ [][NextSer]_vars

\* C38: a clock in idle with tvalid and the inbound request both asserted
\* takes exactly one move, to send when the priority flag is set and to
\* receive when it is clear; after every clock driving is asserted exactly
\* when the state is send; and a clock that enters receive leaves driving
\* clear and the transmit buffer as loaded, with no chunk popped from it.
C38_SerializerOneMove ==
    [][ \A req_i \in BOOLEAN, serial_i \in SerWires, rready_i \in BOOLEAN,
           tvalid_i \in BOOLEAN, tdata_i \in SerMessages :
          SerCycle(req_i, serial_i, rready_i, tvalid_i, tdata_i) =>
              /\ (ser.state = "idle" /\ tvalid_i /\ req_i) =>
                     ser'.state = (IF ser.priority THEN "send" ELSE "receive")
              /\ ser'.driving <=> (ser'.state = "send")
              /\ (ser.state = "idle" /\ ser'.state = "receive") =>
                     (~ser'.driving /\ ser'.tdata_r = tdata_i)
      ]_vars

\* ========================================================================
\* The receiver alone: one rserializer, freshly built, clocked with one
\* transfer of at most DataSize bits
\* ========================================================================
RecvPinCounts == 1 .. DataSize

\* rdut.cycle_clock(en_i, serial_i, ready_i) with free inputs; `fed` is the
\* message the chunks presented with en_i spell, the chunk of each clock
\* placed to the left of the earlier ones, its last pin leftmost
RecvClock(en_i, serial_i, ready_i) ==
    /\ en_i => (~uni_sent.done /\ Len(uni_sent.fed) + uni_pins <= DataSize)
    /\ rdut' = rserializer_cycle_clock(rdut, en_i, serial_i, ready_i)
    /\ uni_sent' = [fed |-> IF en_i THEN ReverseSeq(serial_i) \o uni_sent.fed
                            ELSE uni_sent.fed,
                    done |-> uni_sent.done \/ (~en_i /\ rdut.state = "receive")]
    /\ rinput' = [en_i |-> en_i, serial_i |-> serial_i]
    /\ UNCHANGED <<uni_pins, tdut, uni_read>>
    /\ UNCHANGED outsideUni

\* rserializer.__init__
InitRecv ==
    /\ uni_pins \in RecvPinCounts
    /\ tdut = <<>>
    /\ rdut = [state |-> "idle", valid_o |-> FALSE, data_o |-> <<>>]
    /\ rinput = [en_i |-> FALSE, serial_i |-> [i \in 1..uni_pins |-> 0]]
    /\ uni_sent = [fed |-> <<>>, done |-> FALSE]
    /\ uni_read = FALSE
    /\ IdleFirst /\ IdleLater("Uni")

NextRecv ==
    \E en_i \in BOOLEAN, serial_i \in [1..uni_pins -> {0, 1}], ready_i \in BOOLEAN :
        RecvClock(en_i, serial_i, ready_i)

SpecRecv == InitRecv /\ [][NextRecv]_vars

\* C39: the receiver takes in one chunk per clock with en_i asserted, the
\* clock that leaves idle included: during a transfer into an empty buffer
\* data_o is exactly the bits presented so far, in order, and so it is when
\* valid_o asserts at the end of the transfer.
C39_ReceiverOneChunkPerClock ==
    (rdut.state = "receive" \/ rdut.valid_o) => rdut.data_o = uni_sent.fed

\* ========================================================================
\* The sender alone: one tserializer, freshly built, given messages of
\* every length from 1 to DataSize on every pin count
\* ========================================================================
SendPinCounts == 1 .. DataSize

SendMsgs == UNION {[1..len -> {0, 1}] : len \in 1..DataSize}

ZeroBits(n) == [i \in 1..n |-> 0]

\* the padding that fills the last chunk: (p - L mod p) mod p zeros
FillBits(len) == (uni_pins - (len % uni_pins)) % uni_pins

\* tdut.cycle_clock(data_i, valid_i) with free inputs; `latched` is the
\* message taken when the sender left idle, `emitted` the bits of the
\* chunks put on serial_o since, the chunk of each clock placed to the left
\* of the earlier ones, its last pin leftmost, `chunks` their number
SendClock(data_i, valid_i) ==
    /\ tdut.err = "none"
    /\ \E t2 \in {tserializer_cycle_clock(tdut, data_i, valid_i)} :
           /\ tdut' = t2
           /\ uni_sent' =
                  IF tdut.state = "idle" /\ valid_i
                  THEN [latched |-> data_i,
                        emitted |-> IF t2.err = "none" THEN ReverseSeq(t2.serial_o) ELSE <<>>,
                        chunks |-> IF t2.err = "none" THEN 1 ELSE 0]
                  ELSE IF tdut.state = "send" /\ t2.state = "send" /\ t2.err = "none"
                  THEN [uni_sent EXCEPT !.emitted = ReverseSeq(t2.serial_o) \o @,
                                        !.chunks = @ + 1]
                  ELSE uni_sent
    /\ UNCHANGED <<uni_pins, rdut, rinput, uni_read>>
    /\ UNCHANGED outsideUni

\* tserializer.__init__
InitSend ==
    /\ uni_pins \in SendPinCounts
    /\ tdut = [state |-> "idle", en_o |-> FALSE, serial_o |-> [i \in 1..uni_pins |-> 0],
               ready_o |-> TRUE, data_r |-> <<>>, err |-> "none"]
    /\ rdut = <<>>
    /\ rinput = <<>>
    /\ uni_sent = [latched |-> <<>>, emitted |-> <<>>, chunks |-> 0]
    /\ uni_read = FALSE
    /\ IdleFirst /\ IdleLater("Uni")

NextSend ==
    \/ \E msg \in SendMsgs : SendClock(msg, TRUE)
    \/ \E data_i \in SendMsgs \cup {<<>>} : SendClock(data_i, FALSE)

SpecSend == InitSend /\ [][NextSend]_vars

\* C40: for every message length from 1 to data_size and every pin count,
\* no clock of the sender raises; and when the sender is back in idle after
\* a message of length L, it has emitted ceil(L/p) chunks that spell the
\* message followed by the zeros that fill the last chunk, en_o is
\* deasserted and ready_o asserted.
C40_SenderDrains ==
    /\ tdut.err = "none"
    /\ (tdut.state = "idle" /\ uni_sent.chunks > 0) =>
           /\ uni_sent.chunks * uni_pins
                  = Len(uni_sent.latched) + FillBits(Len(uni_sent.latched))
           /\ uni_sent.emitted
                  = uni_sent.latched \o ZeroBits(FillBits(Len(uni_sent.latched)))
           /\ ~tdut.en_o
           /\ tdut.ready_o

====
